---- MODULE Spec2Model ----
(***************************************************************************)
(* Model of github.com/chmike/migrate: the checksum-chained step registry  *)
(* (steps.go), the SQL database primitives and step functions (sqldb.go)   *)
(* and the Migrator (migrate.go).                                          *)
(*                                                                         *)
(* Granularity: every database transaction is one atomic action (the code  *)
(* opens all of them with sql.LevelSerializable); a non-transactional      *)
(* command or callback is one action of its own.  A Migrator call is split *)
(* into: invoke, mutex acquisition, its body steps, and the return that    *)
(* releases the mutex.                                                     *)
(*                                                                         *)
(* Errors are modelled as the set of sentinels an error value matches with *)
(* errors.Is; "other" stands for the text or driver error that matches no  *)
(* sentinel.  The nil error is the empty set.                              *)
(***************************************************************************)
EXTENDS Integers, Sequences, FiniteSets, TLC

\* ---------------------------------------------------------------- bounds
NumSteps == 2    \* steps appended to the registry after the anchor
NumCmds == 2     \* commands (or callbacks) of every Tx/TxF/NoTx/NoTxF step
MaxCalls == 3    \* Migrator calls made in one behaviour

\* ------------------------------------------------------------- universes
Threads == {"t1", "t2"}
Migrators == {"m1", "m2"}
Kinds == {"nil", "Tx", "TxF", "NoTx", "NoTxF"}
RootName == "db"
StepName(i) == IF i = 1 THEN "s1" ELSE IF i = 2 THEN "s2" ELSE IF i = 3 THEN "s3" ELSE "s4"
ForeignName == "x"

\* ---------------------------------------------------------------- errors
Nil == {}
Other == {"other"}
ErrBadParameters == "ErrBadParameters"
ErrBadVersionID == "ErrBadVersionID"
ErrBadVersionChecksum == "ErrBadVersionChecksum"
ErrAlreadyInitialized == "ErrAlreadyInitialized"
ErrNotInitialized == "ErrNotInitialized"
ErrBadVersion == "ErrBadVersion"
ErrEndOfSteps == "ErrEndOfSteps"
ErrBeginTx == "ErrBeginTx"
ErrCommitTx == "ErrCommitTx"
ErrRollbackTx == "ErrRollbackTx"
ErrCancel == "ErrCancel"
ErrAbort == "ErrAbort"

\* fmt.Errorf("%w: ...", sentinel, ...) around err (err may be Nil for a text)
Wrap(sentinel, err) == {sentinel} \cup err
\* errors.Is(err, sentinel)
Is(err, sentinel) == sentinel \in err

\* --------------------------------------------------------------- version
\* sha256.Sum256 is modelled as an injective function of its input bytes:
\* the digest is the input itself.  The all-zero digest is the empty input.
Sum256(b) == b
ZeroChecksum == << >>
badVersion == [ID |-> -1, Checksum |-> ZeroChecksum]

\* hex.EncodeToString / hex.DecodeString: the text stored in the checksum
\* column.  A text that is not the encoding of 32 bytes has ok = FALSE.
EncodeToString(c) == [ok |-> TRUE, bytes |-> c]
BadHex == [ok |-> FALSE, bytes |-> ZeroChecksum]
ChecksumString(v) == EncodeToString(v.Checksum)

MakeVersion(id, checksum) ==
    IF id < 0 THEN [v |-> badVersion, err |-> Wrap(ErrBadVersionID, Other)]
    ELSE IF ~checksum.ok THEN [v |-> badVersion, err |-> Wrap(ErrBadVersionChecksum, Other)]
    ELSE [v |-> [ID |-> id, Checksum |-> checksum.bytes], err |-> Nil]

\* -------------------------------------------------------------- registry
\* A StepFunc value: its constructor (kind), and a tag telling which
\* registered operation it is.  The nil StepFunc has kind "nil".
NilFunc == [kind |-> "nil", tag |-> [step |-> 0, dir |-> "nil"]]
MkFunc(kind, tag) == IF kind = "nil" THEN NilFunc ELSE [kind |-> kind, tag |-> tag]

NewSteps(name) ==
    << [name |-> name, up |-> NilFunc, down |-> NilFunc,
        version |-> [ID |-> 0, Checksum |-> Sum256(<<name>>)]] >>

\* mutant: the id of the new entry is the id of the last entry
StepsAppend_StaleID(s, name, up, down) ==
    IF name = "" THEN [steps |-> s, err |-> Other]
    ELSE LET ID == Len(s) - 1
             b == s[Len(s)].version.Checksum \o <<ID>> \o <<name>>
         IN [steps |-> Append(s, [name |-> name, up |-> up, down |-> down,
                                   version |-> [ID |-> ID, Checksum |-> Sum256(b)]]),
             err |-> Nil]

\* mutant: the checksum of the previous entry is left out of the digest
StepsAppend_NoChain(s, name, up, down) ==
    IF name = "" THEN [steps |-> s, err |-> Other]
    ELSE LET ID == Len(s)
             b == <<ID>> \o <<name>>
         IN [steps |-> Append(s, [name |-> name, up |-> up, down |-> down,
                                   version |-> [ID |-> ID, Checksum |-> Sum256(b)]]),
             err |-> Nil]

\* Steps.Append: s is the slice, entry ID is s[ID+1]
StepsAppend(s, name, up, down) ==
    IF name = "" THEN [steps |-> s, err |-> Other]
    ELSE LET ID == Len(s)
             b == s[ID].version.Checksum \o <<ID>> \o <<name>>
         IN [steps |-> Append(s, [name |-> name, up |-> up, down |-> down,
                                   version |-> [ID |-> ID, Checksum |-> Sum256(b)]]),
             err |-> Nil]

StepsLen(s) == Len(s)

checkID(s, ID) ==
    IF ID < 0 \/ ID >= Len(s) THEN Wrap(ErrBadVersionID, Other) ELSE Nil

StepsVersion(s, ID) ==
    IF checkID(s, ID) # Nil THEN [v |-> badVersion, err |-> checkID(s, ID)]
    ELSE [v |-> s[ID + 1].version, err |-> Nil]

\* mutant: the checksum is compared first, against every entry
check_ChecksumFirst(s, v) ==
    IF \A i \in 1..Len(s) : s[i].version.Checksum # v.Checksum THEN Wrap(ErrBadVersionChecksum, Other)
    ELSE checkID(s, v.ID)

\* mutant: only the id is validated, not the checksum
check_IDOnly(s, v) == checkID(s, v.ID)

check(s, v) ==
    IF checkID(s, v.ID) # Nil THEN checkID(s, v.ID)
    ELSE IF s[v.ID + 1].version # v THEN Wrap(ErrBadVersionChecksum, Other)
    ELSE Nil

StepsCheck(s, v) == check(s, v)

StepsName(s, ID) ==
    IF checkID(s, ID) # Nil THEN [name |-> "", err |-> checkID(s, ID)]
    ELSE [name |-> s[ID + 1].name, err |-> Nil]

NoInfo == [name |-> "", from |-> badVersion, to |-> badVersion]

\* mutant: the boundary is tested before the version is checked
Up_BoundaryFirst(s, v) ==
    IF v.ID = Len(s) - 1 THEN [info |-> NoInfo, f |-> NilFunc, err |-> Wrap(ErrEndOfSteps, Other)]
    ELSE IF check(s, v) # Nil THEN [info |-> NoInfo, f |-> NilFunc, err |-> Wrap(ErrBadVersion, Other)]
    ELSE [info |-> [name |-> s[v.ID + 2].name, from |-> s[v.ID + 1].version, to |-> s[v.ID + 2].version],
          f |-> s[v.ID + 2].up, err |-> Nil]

\* mutant: a version the registry rejects is reported as the end of the steps
Up_BadIsEnd(s, v) ==
    IF check(s, v) # Nil \/ v.ID = Len(s) - 1
    THEN [info |-> NoInfo, f |-> NilFunc, err |-> Wrap(ErrEndOfSteps, Other)]
    ELSE [info |-> [name |-> s[v.ID + 2].name, from |-> s[v.ID + 1].version, to |-> s[v.ID + 2].version],
          f |-> s[v.ID + 2].up, err |-> Nil]

\* mutant: the operation returned is the up of the entry the step leaves
Up_FromOp(s, v) ==
    IF check(s, v) # Nil THEN [info |-> NoInfo, f |-> NilFunc, err |-> Wrap(ErrBadVersion, Other)]
    ELSE IF v.ID = Len(s) - 1 THEN [info |-> NoInfo, f |-> NilFunc, err |-> Wrap(ErrEndOfSteps, Other)]
    ELSE [info |-> [name |-> s[v.ID + 2].name, from |-> s[v.ID + 1].version, to |-> s[v.ID + 2].version],
          f |-> s[v.ID + 1].up, err |-> Nil]

\* mutant: the last entry is reported as a bad version, not as the end
Up_EndIsBadVersion(s, v) ==
    IF check(s, v) # Nil \/ v.ID = Len(s) - 1
    THEN [info |-> NoInfo, f |-> NilFunc, err |-> Wrap(ErrBadVersion, Other)]
    ELSE [info |-> [name |-> s[v.ID + 2].name, from |-> s[v.ID + 1].version, to |-> s[v.ID + 2].version],
          f |-> s[v.ID + 2].up, err |-> Nil]

Up(s, v) ==
    IF check(s, v) # Nil THEN [info |-> NoInfo, f |-> NilFunc, err |-> Wrap(ErrBadVersion, Other)]
    ELSE IF v.ID = Len(s) - 1 THEN [info |-> NoInfo, f |-> NilFunc, err |-> Wrap(ErrEndOfSteps, Other)]
    ELSE [info |-> [name |-> s[v.ID + 2].name, from |-> s[v.ID + 1].version, to |-> s[v.ID + 2].version],
          f |-> s[v.ID + 2].up, err |-> Nil]

\* mutant: the name and the operation are those of the entry the step reaches
Down_ToOp(s, v) ==
    IF check(s, v) # Nil THEN [info |-> NoInfo, f |-> NilFunc, err |-> Wrap(ErrBadVersion, Other)]
    ELSE IF v.ID = 0 THEN [info |-> NoInfo, f |-> NilFunc, err |-> Wrap(ErrEndOfSteps, Other)]
    ELSE [info |-> [name |-> s[v.ID].name, from |-> s[v.ID + 1].version, to |-> s[v.ID].version],
          f |-> s[v.ID].down, err |-> Nil]

\* mutant: the lowest entry a step down leaves is entry 1
Down_StopsAtOne(s, v) ==
    IF check(s, v) # Nil THEN [info |-> NoInfo, f |-> NilFunc, err |-> Wrap(ErrBadVersion, Other)]
    ELSE IF v.ID <= 1 THEN [info |-> NoInfo, f |-> NilFunc, err |-> Wrap(ErrEndOfSteps, Other)]
    ELSE [info |-> [name |-> s[v.ID + 1].name, from |-> s[v.ID + 1].version, to |-> s[v.ID].version],
          f |-> s[v.ID + 1].down, err |-> Nil]

Down(s, v) ==
    IF check(s, v) # Nil THEN [info |-> NoInfo, f |-> NilFunc, err |-> Wrap(ErrBadVersion, Other)]
    ELSE IF v.ID = 0 THEN [info |-> NoInfo, f |-> NilFunc, err |-> Wrap(ErrEndOfSteps, Other)]
    ELSE [info |-> [name |-> s[v.ID + 1].name, from |-> s[v.ID + 1].version, to |-> s[v.ID].version],
          f |-> s[v.ID + 1].down, err |-> Nil]

\* The registry built at start-up: NewSteps(root), then one Append per step.
\* names[1] is the anchor name, kinds[i] the constructor of step i's up and
\* down operations.
RECURSIVE BuildSteps(_, _, _)
BuildSteps(names, kinds, n) ==
    IF n = 0 THEN NewSteps(names[1])
    ELSE StepsAppend(BuildSteps(names, kinds, n - 1), names[n + 1],
                     MkFunc(kinds[n], [step |-> n, dir |-> "up"]),
                     MkFunc(kinds[n], [step |-> n, dir |-> "down"])).steps

OwnNames == [i \in 1..(NumSteps + 1) |-> IF i = 1 THEN RootName ELSE StepName(i - 1)]

\* ------------------------------------------------------------- database
\* The persisted state D = [table, rows, data]: whether the version table
\* exists, its rows (id, checksum text), and the log of the effects of the
\* commands and callbacks that were executed and not rolled back.
\* A fault set names the driver calls that fail in one operation.
FaultNames == {"begin", "query", "exec", "commit", "rollback"}
FaultSets == {fs \in SUBSET FaultNames : Cardinality(fs) <= 2}

Row(v) == [id |-> v.ID, checksum |-> ChecksumString(v)]

\* mutant: commit whenever the run is not a dry run, even with an error pending
FinalizeTransaction_IgnoreErr(err, dryRun, faults) ==
    IF dryRun THEN [err |-> err, commit |-> FALSE]
    ELSE IF "commit" \in faults THEN [err |-> Wrap(ErrCommitTx, Other), commit |-> FALSE]
    ELSE [err |-> err, commit |-> TRUE]

\* mutant: commit a dry run that has no error pending
FinalizeTransaction_IgnoreDryRun(err, dryRun, faults) ==
    IF err # Nil THEN [err |-> err, commit |-> FALSE]
    ELSE IF "commit" \in faults THEN [err |-> Wrap(ErrCommitTx, Other), commit |-> FALSE]
    ELSE [err |-> Nil, commit |-> TRUE]

\* sqlTx.FinalizeTransaction: the error left in *err and whether the
\* transaction was committed
FinalizeTransaction(err, dryRun, faults) ==
    IF err # Nil \/ dryRun
    THEN IF "rollback" \in faults
         THEN [err |-> IF err # Nil THEN err \cup Wrap(ErrRollbackTx, Other)
                       ELSE Wrap(ErrRollbackTx, Other),
               commit |-> FALSE]
         ELSE [err |-> err, commit |-> FALSE]
    ELSE IF "commit" \in faults
         THEN [err |-> Wrap(ErrCommitTx, Other), commit |-> FALSE]
         ELSE [err |-> Nil, commit |-> TRUE]

\* sqlDB.StartTransaction
StartTransaction(faults) ==
    IF "begin" \in faults THEN Wrap(ErrBeginTx, Other) ELSE Nil

\* sqlDB.VersionTx on the rows the transaction sees
VersionTx(D, faults) ==
    IF "query" \in faults \/ ~D.table \/ Len(D.rows) = 0
    THEN [v |-> [ID |-> 0, Checksum |-> ZeroChecksum], err |-> Wrap(ErrNotInitialized, Other)]
    ELSE MakeVersion(D.rows[1].id, D.rows[1].checksum)

\* sqlDB.Version
DBVersion(D, faults) ==
    IF StartTransaction(faults) # Nil
    THEN [v |-> badVersion, err |-> StartTransaction(faults)]
    ELSE LET r == VersionTx(D, faults)
         IN [v |-> r.v, err |-> FinalizeTransaction(r.err, FALSE, faults).err]

\* mutant: the table is created and the version row is not inserted
InitVersion_NoInsert(D, v, dryRun, faults) ==
    LET begin == StartTransaction(faults)
        body == IF D.table \/ "exec" \in faults THEN Other ELSE Nil
        fin == FinalizeTransaction(body, dryRun, faults)
        err == IF begin # Nil THEN begin ELSE fin.err
    IN [db |-> IF begin = Nil /\ fin.commit THEN [D EXCEPT !.table = TRUE] ELSE D,
        err |-> IF err # Nil THEN Wrap(ErrNotInitialized, err) ELSE Nil]

\* sqlDB.InitVersion: CREATE TABLE then INSERT in one transaction
InitVersion(D, v, dryRun, faults) ==
    LET begin == StartTransaction(faults)
        body == IF D.table \/ "exec" \in faults THEN Other ELSE Nil
        fin == FinalizeTransaction(body, dryRun, faults)
        err == IF begin # Nil THEN begin ELSE fin.err
    IN [db |-> IF begin = Nil /\ fin.commit
               THEN [D EXCEPT !.table = TRUE, !.rows = <<Row(v)>>]
               ELSE D,
        err |-> IF err # Nil THEN Wrap(ErrNotInitialized, err) ELSE Nil]

\* mutant: the UPDATE has no WHERE clause on the version it replaces
SetVersionTx_Unconditional(D, info, faults) ==
    IF "exec" \in faults \/ ~D.table THEN [db |-> D, err |-> Other]
    ELSE [db |-> [D EXCEPT !.rows = [i \in 1..Len(D.rows) |-> Row(info.to)]],
          err |-> IF Len(D.rows) # 1 THEN {ErrBadVersion} ELSE Nil]

\* mutant: the UPDATE sets the id and leaves the checksum
SetVersionTx_KeepChecksum(D, info, faults) ==
    IF "exec" \in faults \/ ~D.table THEN [db |-> D, err |-> Other]
    ELSE LET match(r) == r.id = info.from.ID /\ r.checksum = ChecksumString(info.from)
             rowsAffected == Cardinality({i \in 1..Len(D.rows) : match(D.rows[i])})
         IN [db |-> [D EXCEPT !.rows = [i \in 1..Len(D.rows) |->
                                          IF match(D.rows[i]) THEN [D.rows[i] EXCEPT !.id = info.to.ID]
                                          ELSE D.rows[i]]],
             err |-> IF rowsAffected # 1 THEN {ErrBadVersion} ELSE Nil]

\* mutant: the WHERE clause of the UPDATE compares the id only
SetVersionTx_IDOnly(D, info, faults) ==
    IF "exec" \in faults \/ ~D.table THEN [db |-> D, err |-> Other]
    ELSE LET match(r) == r.id = info.from.ID
             rowsAffected == Cardinality({i \in 1..Len(D.rows) : match(D.rows[i])})
         IN [db |-> [D EXCEPT !.rows = [i \in 1..Len(D.rows) |->
                                          IF match(D.rows[i]) THEN Row(info.to) ELSE D.rows[i]]],
             err |-> IF rowsAffected # 1 THEN {ErrBadVersion} ELSE Nil]

\* sqlDB.SetVersionTx: the conditional UPDATE on the rows of the transaction
SetVersionTx(D, info, faults) ==
    IF "exec" \in faults \/ ~D.table THEN [db |-> D, err |-> Other]
    ELSE LET match(r) == r.id = info.from.ID /\ r.checksum = ChecksumString(info.from)
             rowsAffected == Cardinality({i \in 1..Len(D.rows) : match(D.rows[i])})
         IN [db |-> [D EXCEPT !.rows = [i \in 1..Len(D.rows) |->
                                          IF match(D.rows[i]) THEN Row(info.to) ELSE D.rows[i]]],
             err |-> IF rowsAffected # 1 THEN {ErrBadVersion} ELSE Nil]

\* sqlDB.SetVersion and sqlDB.DefaultStepFunc
SetVersion(D, info, dryRun, faults) ==
    IF StartTransaction(faults) # Nil THEN [db |-> D, err |-> StartTransaction(faults)]
    ELSE LET r == SetVersionTx(D, info, faults)
             fin == FinalizeTransaction(r.err, dryRun, faults)
         IN [db |-> IF fin.commit THEN r.db ELSE D, err |-> fin.err]

\* mutant: a dry run returns nil without running the update
DefaultStepFunc_DryRunSkips(D, info, dryRun, faults) ==
    IF dryRun THEN [db |-> D, err |-> Nil] ELSE SetVersion(D, info, dryRun, faults)

DefaultStepFunc(D, info, dryRun, faults) == SetVersion(D, info, dryRun, faults)

\* -------------------------------------------------------- step functions
\* A step function is applied to the database D with the outcome of each of
\* its commands or callbacks (outs[k]) and the driver faults of the run.
\* It yields the database it leaves, the error it returns and the events of
\* the run in order: begin, read (version read), cmd k with its outcome,
\* set (version update), commit, rollback.
CmdOutcomes == {"ok", "fail"}
FuncOutcomes == {"ok", "fail", "cancel", "abort"}
\* mutant: a callback's ErrCancel is taken as success
OutcomeErr_CancelIsNil(o) == IF o \in {"ok", "cancel"} THEN Nil
                             ELSE IF o = "abort" THEN {ErrAbort}
                             ELSE Other

OutcomeErr(o) == IF o = "ok" THEN Nil
                 ELSE IF o = "cancel" THEN {ErrCancel}
                 ELSE IF o = "abort" THEN {ErrAbort}
                 ELSE Other

Ev(name, f, k) == [ev |-> name, step |-> f.tag.step, dir |-> f.tag.dir, cmd |-> k, res |-> ""]
CmdEv(f, k, o) == [ev |-> "cmd", step |-> f.tag.step, dir |-> f.tag.dir, cmd |-> k, res |-> o]
Effect(f, k) == [step |-> f.tag.step, dir |-> f.tag.dir, cmd |-> k]
CmdEvents(f, outs, n) == [k \in 1..n |-> CmdEv(f, k, outs[k])]
\* the effects of the commands among the first n that returned no error
RECURSIVE Effects(_, _, _)
Effects(f, outs, n) ==
    IF n = 0 THEN << >>
    ELSE Effects(f, outs, n - 1) \o (IF outs[n] = "ok" THEN <<Effect(f, n)>> ELSE << >>)
\* index of the first command whose outcome is in the set stop, 0 if none
FirstIn(outs, stop) ==
    IF \E k \in 1..NumCmds : outs[k] \in stop
    THEN CHOOSE k \in 1..NumCmds : outs[k] \in stop /\ \A j \in 1..(k - 1) : outs[j] \notin stop
    ELSE 0
\* the call FinalizeTransaction made on the transaction: Commit that
\* succeeded (commit), Commit that failed (commitfail) or Rollback, with
\* res = "fail" when the call returned an error
FinalEvent(f, fin) ==
    <<[Ev(IF fin.commit THEN "commit"
          ELSE IF Is(fin.err, ErrCommitTx) THEN "commitfail"
          ELSE "rollback", f, 0)
        EXCEPT !.res = IF Is(fin.err, ErrCommitTx) \/ Is(fin.err, ErrRollbackTx) THEN "fail" ELSE ""]>>

\* mutant: the commands run without comparing the version with info.From()
TxBody_NoRecheck(D, f, info, outs, faults) ==
    LET r == VersionTx(D, faults)
        kf == FirstIn(outs, {"fail"})
        ran == IF kf = 0 THEN NumCmds ELSE kf
        D1 == [D EXCEPT !.data = @ \o Effects(f, outs, ran)]
        sv == SetVersionTx(D1, info, faults)
    IN IF r.err # Nil THEN [db |-> D, err |-> r.err, events |-> <<Ev("read", f, 0)>>]
       ELSE IF kf # 0 THEN [db |-> D1, err |-> Other,
                            events |-> <<Ev("read", f, 0)>> \o CmdEvents(f, outs, ran)]
       ELSE [db |-> sv.db, err |-> sv.err,
             events |-> <<Ev("read", f, 0)>> \o CmdEvents(f, outs, ran) \o <<Ev("set", f, 0)>>]

\* the body of Tx between StartTransaction and the deferred finalization
TxBody(D, f, info, outs, faults) ==
    LET r == VersionTx(D, faults)
        kf == FirstIn(outs, {"fail"})
        ran == IF kf = 0 THEN NumCmds ELSE kf
        D1 == [D EXCEPT !.data = @ \o Effects(f, outs, ran)]
        sv == SetVersionTx(D1, info, faults)
    IN IF r.err # Nil THEN [db |-> D, err |-> r.err, events |-> <<Ev("read", f, 0)>>]
       ELSE IF r.v # info.from THEN [db |-> D, err |-> Other, events |-> <<Ev("read", f, 0)>>]
       ELSE IF kf # 0 THEN [db |-> D1, err |-> Other,
                            events |-> <<Ev("read", f, 0)>> \o CmdEvents(f, outs, ran)]
       ELSE [db |-> sv.db, err |-> sv.err,
             events |-> <<Ev("read", f, 0)>> \o CmdEvents(f, outs, ran) \o <<Ev("set", f, 0)>>]

\* mutant: FinalizeTransaction is deferred after the version check, so that
\* a return on a failed or mismatching version read leaves the transaction
\* open
Tx_LateDefer(D, f, info, dryRun, outs, faults) ==
    IF StartTransaction(faults) # Nil
    THEN [db |-> D, err |-> StartTransaction(faults), events |-> << >>]
    ELSE LET body == TxBody(D, f, info, outs, faults)
             fin == FinalizeTransaction(body.err, dryRun, faults)
         IN IF body.err # Nil /\ Len(body.events) = 1
            THEN [db |-> D, err |-> body.err, events |-> <<Ev("begin", f, 0)>> \o body.events]
            ELSE [db |-> IF fin.commit THEN body.db ELSE D,
                  err |-> fin.err,
                  events |-> <<Ev("begin", f, 0)>> \o body.events \o FinalEvent(f, fin)]

\* the step function returned by Tx(cmds...)
Tx(D, f, info, dryRun, outs, faults) ==
    IF StartTransaction(faults) # Nil
    THEN [db |-> D, err |-> StartTransaction(faults), events |-> << >>]
    ELSE LET body == TxBody(D, f, info, outs, faults)
             fin == FinalizeTransaction(body.err, dryRun, faults)
         IN [db |-> IF fin.commit THEN body.db ELSE D,
             err |-> fin.err,
             events |-> <<Ev("begin", f, 0)>> \o body.events \o FinalEvent(f, fin)]

\* mutant: the loop over the callbacks returns at the first ErrCancel
TxFBody_StopAtCancel(D, f, info, outs, faults) ==
    LET r == VersionTx(D, faults)
        kf == FirstIn(outs, {"fail", "abort", "cancel"})
        ran == IF kf = 0 THEN NumCmds ELSE kf
        D1 == [D EXCEPT !.data = @ \o Effects(f, outs, ran)]
        sv == SetVersionTx(D1, info, faults)
    IN IF r.err # Nil THEN [db |-> D, err |-> r.err, events |-> <<Ev("read", f, 0)>>]
       ELSE IF r.v # info.from THEN [db |-> D, err |-> Other, events |-> <<Ev("read", f, 0)>>]
       ELSE IF kf # 0 THEN [db |-> D1, err |-> OutcomeErr(outs[kf]),
                            events |-> <<Ev("read", f, 0)>> \o CmdEvents(f, outs, ran)]
       ELSE [db |-> sv.db, err |-> sv.err,
             events |-> <<Ev("read", f, 0)>> \o CmdEvents(f, outs, ran) \o <<Ev("set", f, 0)>>]

\* the body of TxF between StartTransaction and the deferred finalization
TxFBody(D, f, info, outs, faults) ==
    LET r == VersionTx(D, faults)
        kf == FirstIn(outs, {"fail", "abort"})
        ran == IF kf = 0 THEN NumCmds ELSE kf
        cancel == \E k \in 1..ran : outs[k] = "cancel"
        D1 == [D EXCEPT !.data = @ \o Effects(f, outs, ran)]
        sv == SetVersionTx(D1, info, faults)
    IN IF r.err # Nil THEN [db |-> D, err |-> r.err, events |-> <<Ev("read", f, 0)>>]
       ELSE IF r.v # info.from THEN [db |-> D, err |-> Other, events |-> <<Ev("read", f, 0)>>]
       ELSE IF kf # 0 THEN [db |-> D1, err |-> OutcomeErr(outs[kf]),
                            events |-> <<Ev("read", f, 0)>> \o CmdEvents(f, outs, ran)]
       ELSE IF cancel THEN [db |-> D1, err |-> {ErrCancel},
                            events |-> <<Ev("read", f, 0)>> \o CmdEvents(f, outs, ran)]
       ELSE [db |-> sv.db, err |-> sv.err,
             events |-> <<Ev("read", f, 0)>> \o CmdEvents(f, outs, ran) \o <<Ev("set", f, 0)>>]

\* mutant: the deferred function leaves ErrCancel in the returned error
TxFDeferred_KeepCancel(err) == err

\* mutant: the deferred function clears ErrAbort as it clears ErrCancel
TxFDeferred_SwallowAbort(err) ==
    IF err # Nil /\ (Is(err, ErrCancel) \/ Is(err, ErrAbort)) THEN Nil ELSE err

\* the deferred function of TxF that runs after FinalizeTransaction
TxFDeferred(err) == IF err # Nil /\ Is(err, ErrCancel) THEN Nil ELSE err

\* the step function returned by TxF(fs...)
TxF(D, f, info, dryRun, outs, faults) ==
    IF StartTransaction(faults) # Nil
    THEN [db |-> D, err |-> StartTransaction(faults), events |-> << >>]
    ELSE LET body == TxFBody(D, f, info, outs, faults)
             fin == FinalizeTransaction(body.err, dryRun, faults)
         IN [db |-> IF fin.commit THEN body.db ELSE D,
             err |-> TxFDeferred(fin.err),
             events |-> <<Ev("begin", f, 0)>> \o body.events \o FinalEvent(f, fin)]

\* mutant: the version read is not compared with info.From
NoTxCheck_NoCompare(D, info, faults) == DBVersion(D, faults).err

\* NoTx and NoTxF, first part: db.Version and the comparison with info.From
NoTxCheck(D, info, faults) ==
    LET r == DBVersion(D, faults)
    IN IF r.err # Nil THEN r.err
       ELSE IF r.v # info.from THEN Other
       ELSE Nil

\* ---------------------------------------------------------------- state
VARIABLES
    steps,          \* Steps.steps: the registry shared by the Migrators
    db,             \* the database: [table, rows, data]
    mu,             \* Migrator.mu: the thread holding it, or "free"
    cachedVersion,  \* Migrator.cachedVersion
    owner,          \* the Migrator a thread calls, "none" for an unused thread
    pc,             \* position of a thread in its current call
    call,           \* the public method being called: [op, dryRun]
    cur,            \* oneUp/oneDown locals: [info, f, k]
    last,           \* the latest step function run in the current call
    invoked,        \* the steps whose operation the current call has invoked
    pre,            \* database and cache when the call acquired the mutex
    ret,            \* the error the call returns
    ncalls,         \* number of calls made so far
    clean,          \* no driver call, command or callback of the call has failed
    reg,            \* the latest call made on the registry itself, with its results
    rwmu,           \* Steps.mu: [writer, readers], the goroutines holding it
    caller          \* the goroutines calling the registry: [pc, op, seen, res]

vars == <<rwmu, caller, reg, steps, db, mu, cachedVersion, owner, pc, call, cur, last, invoked, pre, ret, ncalls, clean>>

Ops == {"Version", "Init", "OneUp", "OneDown", "AllUp", "AllDown"}
DryOps == {"Init", "OneUp", "OneDown"}
Calls == {[op |-> o, dryRun |-> FALSE] : o \in Ops} \cup {[op |-> o, dryRun |-> TRUE] : o \in DryOps}
\* the calls made on a Migrator: any call on m1; m2 stands for a second
\* process that migrates the same database up, one step at a time
CallsOf(m) == IF m = "m2" THEN {[op |-> "OneUp", dryRun |-> FALSE]} ELSE Calls
IsUp(c) == c.op \in {"OneUp", "AllUp"}
IsAll(c) == c.op \in {"AllUp", "AllDown"}

EmptyDB == [table |-> FALSE, rows |-> << >>, data |-> << >>]
NoCall == [op |-> "none", dryRun |-> FALSE]
NoCur == [info |-> NoInfo, f |-> NilFunc, k |-> 0]
NoLast == [valid |-> FALSE, f |-> NilFunc, info |-> NoInfo, dryRun |-> FALSE,
           pre |-> EmptyDB, post |-> EmptyDB, err |-> Nil, events |-> << >>, done |-> FALSE]
NoPre == [db |-> EmptyDB, cache |-> badVersion]
NoReg == [op |-> "none", id |-> 0, v |-> badVersion, name |-> "", up |-> NilFunc, down |-> NilFunc,
          err |-> Nil, version |-> badVersion, info |-> NoInfo, f |-> NilFunc]

\* the goroutines that call the registry concurrently: two that read it and
\* one that appends to it
Readers == {"r1", "r2"}
Writers == {"w"}
Callers == Readers \cup Writers
\* sync.RWMutex: the goroutine holding the write lock, those holding a read lock
FreeRW == [writer |-> "none", readers |-> {}]
NoOp == [op |-> "none", id |-> 0, v |-> badVersion, name |-> "", up |-> NilFunc]
NoRes == [err |-> Nil, len |-> 0, version |-> badVersion, name |-> "", info |-> NoInfo, f |-> NilFunc]
NoCaller == [pc |-> "idle", op |-> NoOp, seen |-> << >>, res |-> NoRes]
\* the zero value of the step struct
ZeroStep == [name |-> "", up |-> NilFunc, down |-> NilFunc,
             version |-> [ID |-> 0, Checksum |-> ZeroChecksum]]

\* ----------------------------------------------------------------- Init
\* The registry of the Migrators is OwnNames with any constructor per step.
\* The database starts uninitialized, or holding the row written by an
\* earlier run: a version of this registry, of a registry that differs in
\* one name, of a longer registry, or a row that does not decode.
AllNil == [i \in 1..(NumSteps + 1) |-> "nil"]
ForeignNames(j) == [i \in 1..(NumSteps + 1) |-> IF i = j THEN ForeignName ELSE OwnNames[i]]
LongerNames == [i \in 1..(NumSteps + 2) |-> IF i = 1 THEN RootName ELSE StepName(i - 1)]
HistoryVersions ==
    {BuildSteps(OwnNames, AllNil, NumSteps)[i].version : i \in 1..(NumSteps + 1)}
    \cup {BuildSteps(ForeignNames(j), AllNil, NumSteps)[i].version :
             j \in 1..(NumSteps + 1), i \in 1..(NumSteps + 1)}
    \cup {BuildSteps(LongerNames, AllNil, NumSteps + 1)[NumSteps + 2].version}
InitRows == {Row(v) : v \in HistoryVersions}
            \cup {[id |-> 0, checksum |-> BadHex],
                  [id |-> -1, checksum |-> EncodeToString(Sum256(<<RootName>>))]}
InitDBs == {EmptyDB} \cup {[table |-> TRUE, rows |-> <<r>>, data |-> << >>] : r \in InitRows}

\* the databases this registry itself can have produced
OwnDBs == {EmptyDB} \cup {[table |-> TRUE, rows |-> <<Row(BuildSteps(OwnNames, AllNil, NumSteps)[i].version)>>,
                           data |-> << >>] : i \in 1..(NumSteps + 1)}

AnyKinds == [1..NumSteps -> Kinds]
UniformKinds == {[i \in 1..NumSteps |-> k] : k \in Kinds}

\* own: the Migrator of each thread; kindsets, lens, dbs: the constructors
\* and the numbers of steps of the registries, and the databases to start from; warm: the state is the one left by a first
\* Version call on every Migrator in use, instead of the one left by New;
\* made: the calls made before that state
InitWith(own, kindsets, lens, dbs, warm, made) ==
    /\ \E kinds \in kindsets, n \in lens : steps = BuildSteps(OwnNames, kinds, n)
    /\ db \in dbs
    /\ mu = [m \in Migrators |-> "free"]
    /\ cachedVersion = [m \in Migrators |->
                          IF warm /\ (\E t \in Threads : own[t] = m)
                                  /\ VersionTx(db, {}).err = Nil
                                  /\ check(steps, VersionTx(db, {}).v) = Nil
                          THEN VersionTx(db, {}).v
                          ELSE badVersion]
    /\ owner = own
    /\ pc = [t \in Threads |-> "idle"]
    /\ call = [t \in Threads |-> NoCall]
    /\ cur = [t \in Threads |-> NoCur]
    /\ last = [t \in Threads |-> NoLast]
    /\ invoked = [t \in Threads |-> << >>]
    /\ pre = [t \in Threads |-> NoPre]
    /\ ret = [t \in Threads |-> Nil]
    /\ ncalls = made
    /\ clean = [t \in Threads |-> TRUE]
    /\ reg = NoReg
    /\ rwmu = FreeRW
    /\ caller = [c \in Callers |-> NoCaller]

\* one thread driving one Migrator
Init == InitWith([t \in Threads |-> IF t = "t1" THEN "m1" ELSE "none"], AnyKinds, {NumSteps}, InitDBs, FALSE, 0)

\* -------------------------------------------------------------- actions
\* A thread calls a public method: it reaches m.mu.Lock()
Invoke(t, c) ==
    /\ owner[t] # "none"
    /\ c \in CallsOf(owner[t])
    /\ pc[t] = "idle"
    /\ ncalls < MaxCalls
    /\ ncalls' = ncalls + 1
    /\ pc' = [pc EXCEPT ![t] = "lock"]
    /\ call' = [call EXCEPT ![t] = c]
    /\ UNCHANGED <<rwmu, caller, reg, steps, db, mu, cachedVersion, owner, cur, last, invoked, pre, ret, clean>>

\* mutant: Lock returns whether or not the mutex is held
CanLock_Always(m) == TRUE

\* sync.Mutex.Lock: taken only when free
CanLock(m) == mu[m] = "free"

\* m.mu.Lock() returns
Acquire(t) ==
    /\ pc[t] = "lock"
    /\ CanLock(owner[t])
    /\ mu' = [mu EXCEPT ![owner[t]] = t]
    /\ pre' = [pre EXCEPT ![t] = [db |-> db, cache |-> cachedVersion[owner[t]]]]
    /\ pc' = [pc EXCEPT ![t] = IF call[t].op = "Version" THEN "version"
                               ELSE IF call[t].op = "Init" THEN "init"
                               ELSE "step"]
    /\ UNCHANGED <<rwmu, caller, reg, steps, db, cachedVersion, owner, call, cur, last, invoked, ret, ncalls, clean>>

\* mutant: the version read is cached without asking the registry
versionCtx_NoCheck(D, faults) ==
    LET r == DBVersion(D, faults)
    IN IF r.err # Nil THEN [cache |-> badVersion, err |-> r.err]
       ELSE [cache |-> r.v, err |-> Nil]

\* Migrator.versionCtx: the new cache and the error
versionCtx(D, faults) ==
    LET r == DBVersion(D, faults)
    IN IF r.err # Nil THEN [cache |-> badVersion, err |-> r.err]
       ELSE IF check(steps, r.v) # Nil THEN [cache |-> badVersion, err |-> check(steps, r.v)]
       ELSE [cache |-> r.v, err |-> Nil]

\* Migrator.VersionCtx
VersionCtx(t) ==
    /\ pc[t] = "version"
    /\ \E faults \in FaultSets :
         LET r == versionCtx(db, faults)
         IN /\ cachedVersion' = [cachedVersion EXCEPT ![owner[t]] = r.cache]
            /\ clean' = [clean EXCEPT ![t] = @ /\ faults = {}]
            /\ ret' = [ret EXCEPT ![t] = r.err]
    /\ pc' = [pc EXCEPT ![t] = "ret"]
    /\ UNCHANGED <<rwmu, caller, reg, steps, db, mu, owner, call, cur, last, invoked, pre, ncalls>>

\* Migrator.initCtx, first part: versionCtx and the already-initialized test
InitCheck(t) ==
    /\ pc[t] = "init"
    /\ \E faults \in FaultSets :
         LET r == versionCtx(db, faults)
         IN /\ cachedVersion' = [cachedVersion EXCEPT ![owner[t]] = r.cache]
            /\ clean' = [clean EXCEPT ![t] = @ /\ faults = {}]
            /\ IF r.err = Nil
               THEN /\ ret' = [ret EXCEPT ![t] = Wrap(ErrAlreadyInitialized, Other)]
                    /\ pc' = [pc EXCEPT ![t] = "ret"]
               ELSE /\ ret' = ret
                    /\ pc' = [pc EXCEPT ![t] = "init2"]
    /\ UNCHANGED <<rwmu, caller, reg, steps, db, mu, owner, call, cur, last, invoked, pre, ncalls>>

\* Migrator.initCtx, second part: steps.Version(0) and db.InitVersion
InitWrite(t) ==
    /\ pc[t] = "init2"
    /\ \E faults \in FaultSets :
         LET v == StepsVersion(steps, 0)
             r == InitVersion(db, v.v, call[t].dryRun, faults)
         IN /\ clean' = [clean EXCEPT ![t] = @ /\ faults = {}]
            /\ IF v.err # Nil
               THEN /\ ret' = [ret EXCEPT ![t] = Wrap(ErrNotInitialized, v.err)]
                    /\ UNCHANGED <<db, cachedVersion>>
               ELSE /\ db' = r.db
                    /\ ret' = [ret EXCEPT ![t] = IF r.err # Nil THEN Wrap(ErrNotInitialized, r.err) ELSE Nil]
                    /\ cachedVersion' = [cachedVersion EXCEPT ![owner[t]] =
                                           IF r.err = Nil /\ ~call[t].dryRun THEN v.v ELSE @]
    /\ pc' = [pc EXCEPT ![t] = "ret"]
    /\ UNCHANGED <<rwmu, caller, reg, steps, mu, owner, call, cur, last, invoked, pre, ncalls>>

\* mutant: the cache is never moved
CacheAfter_Never(cache, info, err, dryRun) == cache

\* mutant: the cache moves even when the step function returned an error
CacheAfter_IgnoreErr(cache, info, err, dryRun) ==
    IF ~dryRun THEN info.to ELSE cache

\* Migrator.oneUp / oneDown, lines after the step function returned: the
\* cache is moved to info.To() when err is nil and the run is not a dry run
CacheAfter(cache, info, err, dryRun) ==
    IF err = Nil /\ ~dryRun THEN info.to ELSE cache

\* mutant: the loop returns ErrEndOfSteps like any other error
CallResult_KeepEndOfSteps(c, err) == err

\* AllUpCtx / AllDownCtx: the error of oneUp / oneDown ends the loop, and
\* ErrEndOfSteps is turned into nil; the One* methods return the error
CallResult(c, err) ==
    IF IsAll(c) /\ Is(err, ErrEndOfSteps) THEN Nil ELSE err

\* steps.Up or steps.Down on the cached version
Lookup(t) ==
    IF IsUp(call[t]) THEN Up(steps, cachedVersion[owner[t]])
    ELSE Down(steps, cachedVersion[owner[t]])

\* oneUp / oneDown, first part: the registry lookup
StepLookup(t) ==
    /\ pc[t] = "step"
    /\ LET r == Lookup(t)
       IN IF r.err # Nil
          THEN /\ ret' = [ret EXCEPT ![t] = CallResult(call[t], r.err)]
               /\ pc' = [pc EXCEPT ![t] = "ret"]
               /\ UNCHANGED <<cur, invoked>>
          ELSE /\ cur' = [cur EXCEPT ![t] = [info |-> r.info, f |-> r.f, k |-> 0]]
               /\ invoked' = [invoked EXCEPT ![t] =
                                Append(@, [from |-> r.info.from.ID, to |-> r.info.to.ID, res |-> "running"])]
               /\ pc' = [pc EXCEPT ![t] = "exec"]
               /\ ret' = ret
    /\ UNCHANGED <<rwmu, caller, reg, steps, db, mu, cachedVersion, owner, call, last, pre, ncalls, clean>>

\* what became of a step whose function returned err after the events evs
StepRes(err, dryRun, evs) ==
    IF err # Nil THEN "failed"
    ELSE IF \E i \in 1..Len(evs) : evs[i].res = "cancel" THEN "cancelled"
    ELSE IF dryRun THEN "dry"
    ELSE "applied"

\* the step function has returned err: rest of oneUp / oneDown and of the
\* public method around it
Finish(t, err, evs) ==
    /\ invoked' = [invoked EXCEPT ![t][Len(invoked[t])].res = StepRes(err, call[t].dryRun, evs)]
    /\ cachedVersion' = [cachedVersion EXCEPT ![owner[t]] =
                           CacheAfter(@, cur[t].info, err, call[t].dryRun)]
    /\ IF err # Nil
       THEN /\ ret' = [ret EXCEPT ![t] = CallResult(call[t], err)]
            /\ pc' = [pc EXCEPT ![t] = "ret"]
       ELSE IF IsAll(call[t])
       THEN /\ ret' = ret
            /\ pc' = [pc EXCEPT ![t] = "step"]
       ELSE /\ ret' = [ret EXCEPT ![t] = Nil]
            /\ pc' = [pc EXCEPT ![t] = "ret"]

\* the record of a step function that ran as one transaction
Ran(t, D, r) ==
    [valid |-> TRUE, f |-> cur[t].f, info |-> cur[t].info, dryRun |-> call[t].dryRun,
     pre |-> D, post |-> r.db, err |-> r.err, events |-> r.events, done |-> TRUE]

\* up == nil: m.db.DefaultStepFunc
ExecDefault(t) ==
    /\ pc[t] = "exec"
    /\ cur[t].f.kind = "nil"
    /\ \E faults \in FaultSets :
         LET r == DefaultStepFunc(db, cur[t].info, call[t].dryRun, faults)
         IN /\ db' = r.db
            /\ clean' = [clean EXCEPT ![t] = @ /\ faults = {}]
            /\ last' = [last EXCEPT ![t] = Ran(t, db, [db |-> r.db, err |-> r.err, events |-> << >>])]
            /\ Finish(t, r.err, << >>)
    /\ UNCHANGED <<rwmu, caller, reg, steps, mu, owner, call, cur, pre, ncalls>>

\* up is a Tx step function
ExecTx(t) ==
    /\ pc[t] = "exec"
    /\ cur[t].f.kind = "Tx"
    /\ \E faults \in FaultSets, outs \in [1..NumCmds -> CmdOutcomes] :
         LET r == Tx(db, cur[t].f, cur[t].info, call[t].dryRun, outs, faults)
         IN /\ db' = r.db
            /\ clean' = [clean EXCEPT ![t] = @ /\ faults = {} /\ \A k \in 1..NumCmds : outs[k] = "ok"]
            /\ last' = [last EXCEPT ![t] = Ran(t, db, r)]
            /\ Finish(t, r.err, r.events)
    /\ UNCHANGED <<rwmu, caller, reg, steps, mu, owner, call, cur, pre, ncalls>>

\* up is a TxF step function
ExecTxF(t) ==
    /\ pc[t] = "exec"
    /\ cur[t].f.kind = "TxF"
    /\ \E faults \in FaultSets, outs \in [1..NumCmds -> FuncOutcomes] :
         LET r == TxF(db, cur[t].f, cur[t].info, call[t].dryRun, outs, faults)
         IN /\ db' = r.db
            /\ clean' = [clean EXCEPT ![t] = @ /\ faults = {} /\ \A k \in 1..NumCmds : outs[k] = "ok"]
            /\ last' = [last EXCEPT ![t] = Ran(t, db, r)]
            /\ Finish(t, r.err, r.events)
    /\ UNCHANGED <<rwmu, caller, reg, steps, mu, owner, call, cur, pre, ncalls>>

IsNoTx(f) == f.kind \in {"NoTx", "NoTxF"}

\* mutant: the dry run reads the version and compares it before it returns
NoTxDryRun_Checks(t) ==
    /\ pc[t] = "exec"
    /\ IsNoTx(cur[t].f)
    /\ call[t].dryRun
    /\ \E faults \in FaultSets :
         LET e == NoTxCheck(db, cur[t].info, faults)
         IN /\ last' = [last EXCEPT ![t] =
                          Ran(t, db, [db |-> db, err |-> e, events |-> <<Ev("read", cur[t].f, 0)>>])]
            /\ Finish(t, e, << >>)
    /\ UNCHANGED <<rwmu, caller, reg, steps, db, mu, owner, call, cur, pre, ncalls, clean>>

\* NoTx / NoTxF with dryRun: return nil at once
NoTxDryRun(t) ==
    /\ pc[t] = "exec"
    /\ IsNoTx(cur[t].f)
    /\ call[t].dryRun
    /\ last' = [last EXCEPT ![t] = Ran(t, db, [db |-> db, err |-> Nil, events |-> << >>])]
    /\ Finish(t, Nil, << >>)
    /\ UNCHANGED <<rwmu, caller, reg, steps, db, mu, owner, call, cur, pre, ncalls, clean>>

\* NoTx / NoTxF: db.Version(ctx) and the comparison with info.From()
NoTxVersion(t) ==
    /\ pc[t] = "exec"
    /\ IsNoTx(cur[t].f)
    /\ ~call[t].dryRun
    /\ \E faults \in FaultSets :
         LET e == NoTxCheck(db, cur[t].info, faults)
             rec == [Ran(t, db, [db |-> db, err |-> e, events |-> <<Ev("read", cur[t].f, 0)>>])
                       EXCEPT !.done = (e # Nil)]
         IN /\ last' = [last EXCEPT ![t] = rec]
            /\ clean' = [clean EXCEPT ![t] = @ /\ faults = {}]
            /\ IF e # Nil
               THEN Finish(t, e, << >>) /\ cur' = cur
               ELSE /\ cur' = [cur EXCEPT ![t].k = 1]
                    /\ pc' = [pc EXCEPT ![t] = "cmd"]
                    /\ UNCHANGED <<cachedVersion, ret, invoked>>
    /\ UNCHANGED <<rwmu, caller, reg, steps, db, mu, owner, call, pre, ncalls>>

\* mutant: a failing command undoes the effects of the commands before it
NoTxCommand_UndoOnFail(t) ==
    /\ pc[t] = "cmd"
    /\ \E o \in (IF cur[t].f.kind = "NoTx" THEN CmdOutcomes ELSE FuncOutcomes) :
         LET k == cur[t].k
             D1 == IF o = "ok" THEN [db EXCEPT !.data = Append(@, Effect(cur[t].f, k))] ELSE [db EXCEPT !.data = last[t].pre.data]
         IN /\ db' = D1
            /\ clean' = [clean EXCEPT ![t] = @ /\ o = "ok"]
            /\ last' = [last EXCEPT ![t].events = Append(@, CmdEv(cur[t].f, k, o)),
                                    ![t].post = D1,
                                    ![t].err = OutcomeErr(o),
                                    ![t].done = (o # "ok")]
            /\ IF o # "ok"
               THEN Finish(t, OutcomeErr(o), << >>) /\ cur' = cur
               ELSE /\ cur' = [cur EXCEPT ![t].k = k + 1]
                    /\ pc' = [pc EXCEPT ![t] = IF k = NumCmds THEN "setv" ELSE "cmd"]
                    /\ UNCHANGED <<cachedVersion, ret, invoked>>
    /\ UNCHANGED <<rwmu, caller, reg, steps, mu, owner, call, pre, ncalls>>

\* NoTx: db.DB().ExecContext of command k; NoTxF: call of function k
NoTxCommand(t) ==
    /\ pc[t] = "cmd"
    /\ \E o \in (IF cur[t].f.kind = "NoTx" THEN CmdOutcomes ELSE FuncOutcomes) :
         LET k == cur[t].k
             D1 == IF o = "ok" THEN [db EXCEPT !.data = Append(@, Effect(cur[t].f, k))] ELSE db
         IN /\ db' = D1
            /\ clean' = [clean EXCEPT ![t] = @ /\ o = "ok"]
            /\ last' = [last EXCEPT ![t].events = Append(@, CmdEv(cur[t].f, k, o)),
                                    ![t].post = D1,
                                    ![t].err = OutcomeErr(o),
                                    ![t].done = (o # "ok")]
            /\ IF o # "ok"
               THEN Finish(t, OutcomeErr(o), << >>) /\ cur' = cur
               ELSE /\ cur' = [cur EXCEPT ![t].k = k + 1]
                    /\ pc' = [pc EXCEPT ![t] = IF k = NumCmds THEN "setv" ELSE "cmd"]
                    /\ UNCHANGED <<cachedVersion, ret, invoked>>
    /\ UNCHANGED <<rwmu, caller, reg, steps, mu, owner, call, pre, ncalls>>

\* NoTx / NoTxF: db.SetVersion after the last command
NoTxSetVersion(t) ==
    /\ pc[t] = "setv"
    /\ \E faults \in FaultSets :
         LET r == SetVersion(db, cur[t].info, call[t].dryRun, faults)
         IN /\ db' = r.db
            /\ clean' = [clean EXCEPT ![t] = @ /\ faults = {}]
            /\ last' = [last EXCEPT ![t].events = Append(@, Ev("set", cur[t].f, 0)),
                                    ![t].post = r.db,
                                    ![t].err = r.err,
                                    ![t].done = TRUE]
            /\ Finish(t, r.err, << >>)
    /\ UNCHANGED <<rwmu, caller, reg, steps, mu, owner, call, cur, pre, ncalls>>

\* the deferred m.mu.Unlock() and the return to the caller
Return(t) ==
    /\ pc[t] = "ret"
    /\ mu' = [mu EXCEPT ![owner[t]] = "free"]
    /\ pc' = [pc EXCEPT ![t] = "idle"]
    /\ call' = [call EXCEPT ![t] = NoCall]
    /\ cur' = [cur EXCEPT ![t] = NoCur]
    /\ last' = [last EXCEPT ![t] = NoLast]
    /\ invoked' = [invoked EXCEPT ![t] = << >>]
    /\ pre' = [pre EXCEPT ![t] = NoPre]
    /\ ret' = [ret EXCEPT ![t] = Nil]
    /\ clean' = [clean EXCEPT ![t] = TRUE]
    /\ UNCHANGED <<rwmu, caller, reg, steps, db, cachedVersion, owner, ncalls>>

Next ==
    \E t \in Threads :
        \/ \E c \in Calls : Invoke(t, c)
        \/ Acquire(t)
        \/ VersionCtx(t)
        \/ InitCheck(t)
        \/ InitWrite(t)
        \/ StepLookup(t)
        \/ ExecDefault(t)
        \/ ExecTx(t)
        \/ ExecTxF(t)
        \/ NoTxDryRun(t)
        \/ NoTxVersion(t)
        \/ NoTxCommand(t)
        \/ NoTxSetVersion(t)
        \/ Return(t)

Spec == Init /\ [][Next]_vars

\* two threads calling the same Migrator, after a first Version call, with a
\* registry whose steps are all built by the same constructor
InitMutex == InitWith([t \in Threads |-> "m1"], UniformKinds, {NumSteps}, OwnDBs, TRUE, 1)
SpecMutex == InitMutex /\ [][Next]_vars

\* two threads, each calling a Migrator of its own on the same database,
\* after a first Version call of each, with two calls left to make
InitTwo == InitWith([t \in Threads |-> IF t = "t1" THEN "m1" ELSE "m2"], UniformKinds,
                    {NumSteps}, OwnDBs, TRUE, MaxCalls - 2)
SpecTwo == InitTwo /\ [][Next]_vars

\* one thread driving one Migrator on a database that starts uninitialized,
\* with a registry of any number of steps up to NumSteps
InitFresh == InitWith([t \in Threads |-> IF t = "t1" THEN "m1" ELSE "none"], AnyKinds,
                      0..NumSteps, {EmptyDB}, FALSE, 0)
SpecFresh == InitFresh /\ [][Next]_vars

\* ------------------------------------------------- the registry by itself
\* A program building a registry and calling its methods: NewSteps with one
\* of two anchor names, Append of up to NumSteps steps, each with its name
\* or the empty name and with or without an up and a down operation,
\* and between them Version, Name, Check, Up and Down on any id and on
\* versions of this registry, of other registries and of none.
RegRoots == {RootName, ForeignName}
RegNames == {StepName(Len(steps)), ""}
RegKinds == {"nil", "Tx"}
RegIDs == (0 - 1)..(NumSteps + 1)
RegChecksums == {steps[i].version.Checksum : i \in 1..Len(steps)}
                \cup {ZeroChecksum, Sum256(<<ForeignName>>)}
RegVersions == {[ID |-> i, Checksum |-> c] : i \in RegIDs, c \in RegChecksums}

InitSteps ==
    /\ \E name \in RegRoots : steps = NewSteps(name)
    /\ db = EmptyDB
    /\ mu = [m \in Migrators |-> "free"]
    /\ cachedVersion = [m \in Migrators |-> badVersion]
    /\ owner = [t \in Threads |-> "none"]
    /\ pc = [t \in Threads |-> "idle"]
    /\ call = [t \in Threads |-> NoCall]
    /\ cur = [t \in Threads |-> NoCur]
    /\ last = [t \in Threads |-> NoLast]
    /\ invoked = [t \in Threads |-> << >>]
    /\ pre = [t \in Threads |-> NoPre]
    /\ ret = [t \in Threads |-> Nil]
    /\ ncalls = 0
    /\ clean = [t \in Threads |-> TRUE]
    /\ reg = NoReg
    /\ rwmu = FreeRW
    /\ caller = [c \in Callers |-> NoCaller]

NoMigrator == UNCHANGED <<rwmu, caller, db, mu, cachedVersion, owner, pc, call, cur, last, invoked, pre, ret, ncalls, clean>>

\* steps.Append(name, up, down)
CallAppend(name, up, down) ==
    /\ Len(steps) <= NumSteps
    /\ LET r == StepsAppend(steps, name,
                            MkFunc(up, [step |-> Len(steps), dir |-> "up"]),
                            MkFunc(down, [step |-> Len(steps), dir |-> "down"]))
       IN /\ steps' = r.steps
          /\ reg' = [NoReg EXCEPT !.op = "Append", !.name = name, !.err = r.err,
                                  !.up = MkFunc(up, [step |-> Len(steps), dir |-> "up"]),
                                  !.down = MkFunc(down, [step |-> Len(steps), dir |-> "down"])]
    /\ NoMigrator

\* steps.Version(id)
CallVersion(id) ==
    /\ reg' = [NoReg EXCEPT !.op = "Version", !.id = id,
                            !.version = StepsVersion(steps, id).v, !.err = StepsVersion(steps, id).err]
    /\ UNCHANGED steps /\ NoMigrator

\* steps.Name(id)
CallName(id) ==
    /\ reg' = [NoReg EXCEPT !.op = "Name", !.id = id,
                            !.name = StepsName(steps, id).name, !.err = StepsName(steps, id).err]
    /\ UNCHANGED steps /\ NoMigrator

\* steps.Check(v)
CallCheck(v) ==
    /\ reg' = [NoReg EXCEPT !.op = "Check", !.v = v, !.err = StepsCheck(steps, v)]
    /\ UNCHANGED steps /\ NoMigrator

\* steps.Up(v)
CallUp(v) ==
    /\ reg' = [NoReg EXCEPT !.op = "Up", !.v = v, !.info = Up(steps, v).info,
                            !.f = Up(steps, v).f, !.err = Up(steps, v).err]
    /\ UNCHANGED steps /\ NoMigrator

\* steps.Down(v)
CallDown(v) ==
    /\ reg' = [NoReg EXCEPT !.op = "Down", !.v = v, !.info = Down(steps, v).info,
                            !.f = Down(steps, v).f, !.err = Down(steps, v).err]
    /\ UNCHANGED steps /\ NoMigrator

NextSteps ==
    \/ \E name \in RegNames, up \in RegKinds, down \in RegKinds : CallAppend(name, up, down)
    \/ \E id \in RegIDs : CallVersion(id)
    \/ \E id \in RegIDs : CallName(id)
    \/ \E v \in RegVersions : CallCheck(v)
    \/ \E v \in RegVersions : CallUp(v)
    \/ \E v \in RegVersions : CallDown(v)

SpecSteps == InitSteps /\ [][NextSteps]_vars

\* ------------------------------------------------ the registry's RWMutex
\* Goroutines calling one registry at the same time.  Every method takes
\* s.mu on entry and releases it in a deferred call: Append takes the write
\* lock, the other methods a read lock.  A call is the steps: wait for the
\* lock, the body, release.  Append's write of s.steps is not one memory
\* write: the slice header and the element are written separately, and a
\* goroutine reading without the lock could see the new length with the
\* zero element.
RWVersions == {BuildSteps(OwnNames, AllNil, NumSteps)[i].version : i \in 1..(NumSteps + 1)}
ReadOps == {[NoOp EXCEPT !.op = "Len"]}
           \cup {[NoOp EXCEPT !.op = o, !.id = i] : o \in {"Version", "Name"}, i \in 0..NumSteps}
           \cup {[NoOp EXCEPT !.op = o, !.v = v] : o \in {"Check", "Up", "Down"}, v \in RWVersions}

\* what a reading method returns on the registry s
Read(s, o) ==
    CASE o.op = "Len" -> [NoRes EXCEPT !.len = StepsLen(s)]
      [] o.op = "Version" -> [NoRes EXCEPT !.version = StepsVersion(s, o.id).v, !.err = StepsVersion(s, o.id).err]
      [] o.op = "Name" -> [NoRes EXCEPT !.name = StepsName(s, o.id).name, !.err = StepsName(s, o.id).err]
      [] o.op = "Check" -> [NoRes EXCEPT !.err = StepsCheck(s, o.v)]
      [] o.op = "Up" -> [NoRes EXCEPT !.info = Up(s, o.v).info, !.f = Up(s, o.v).f, !.err = Up(s, o.v).err]
      [] o.op = "Down" -> [NoRes EXCEPT !.info = Down(s, o.v).info, !.f = Down(s, o.v).f, !.err = Down(s, o.v).err]

InitRW == InitSteps /\ steps = NewSteps(RootName)

NoRegistry == UNCHANGED <<reg, db, mu, cachedVersion, owner, pc, call, cur, last, invoked, pre, ret, ncalls, clean>>

\* a goroutine is blocked in s.mu.Lock()
WriterWaiting == \E w \in Callers : caller[w].pc = "wlock"

\* mutant: RLock does not wait for the writer
CanRLock_IgnoreWriter(c) == TRUE

\* sync.RWMutex.RLock returns when no goroutine holds the write lock or is
\* blocked in Lock, whatever the number of read locks held
CanRLock(c) == rwmu.writer = "none" /\ ~WriterWaiting

\* sync.RWMutex.Lock returns when no goroutine holds the lock in either mode
CanWLock(c) == rwmu.writer = "none" /\ rwmu.readers = {}

\* a goroutine calls Len, Version, Name, Check, Up or Down
ReadInvoke(c, o) ==
    /\ caller[c].pc = "idle"
    /\ caller' = [caller EXCEPT ![c] = [NoCaller EXCEPT !.pc = "rlock", !.op = o]]
    /\ UNCHANGED <<steps, rwmu>> /\ NoRegistry

\* s.mu.RLock()
RLock(c) ==
    /\ caller[c].pc = "rlock"
    /\ CanRLock(c)
    /\ rwmu' = [rwmu EXCEPT !.readers = @ \cup {c}]
    /\ caller' = [caller EXCEPT ![c].pc = "read", ![c].seen = steps]
    /\ UNCHANGED steps /\ NoRegistry

\* the body of the reading method
ReadBody(c) ==
    /\ caller[c].pc = "read"
    /\ caller' = [caller EXCEPT ![c].pc = "runlock", ![c].res = Read(steps, caller[c].op)]
    /\ UNCHANGED <<steps, rwmu>> /\ NoRegistry

\* the deferred s.mu.RUnlock()
RUnlock(c) ==
    /\ caller[c].pc = "runlock"
    /\ rwmu' = [rwmu EXCEPT !.readers = @ \ {c}]
    /\ caller' = [caller EXCEPT ![c].pc = "done"]
    /\ UNCHANGED steps /\ NoRegistry

\* a goroutine calls Append(name, up, nil)
AppendInvoke(c, name, up) ==
    /\ caller[c].pc = "idle"
    /\ Len(steps) <= NumSteps
    /\ caller' = [caller EXCEPT ![c] = [NoCaller EXCEPT !.pc = "wlock",
                       !.op = [NoOp EXCEPT !.op = "Append", !.name = name,
                                           !.up = MkFunc(up, [step |-> Len(steps), dir |-> "up"])]]]
    /\ UNCHANGED <<steps, rwmu>> /\ NoRegistry

\* s.mu.Lock()
WLock(c) ==
    /\ caller[c].pc = "wlock"
    /\ CanWLock(c)
    /\ rwmu' = [rwmu EXCEPT !.writer = c]
    /\ caller' = [caller EXCEPT ![c].pc = "append", ![c].seen = steps]
    /\ UNCHANGED steps /\ NoRegistry

\* Append's body up to the write of the slice header: the empty name returns
\* the error, otherwise the slice has one more element, still zero
AppendGrow(c) ==
    /\ caller[c].pc = "append"
    /\ LET r == StepsAppend(steps, caller[c].op.name, caller[c].op.up, NilFunc)
       IN IF r.err # Nil
          THEN /\ caller' = [caller EXCEPT ![c].pc = "wunlock", ![c].res = [NoRes EXCEPT !.err = r.err]]
               /\ UNCHANGED steps
          ELSE /\ caller' = [caller EXCEPT ![c].pc = "fill"]
               /\ steps' = Append(steps, ZeroStep)
    /\ UNCHANGED rwmu /\ NoRegistry

\* the write of the new element
AppendFill(c) ==
    /\ caller[c].pc = "fill"
    /\ steps' = StepsAppend(SubSeq(steps, 1, Len(steps) - 1),
                            caller[c].op.name, caller[c].op.up, NilFunc).steps
    /\ caller' = [caller EXCEPT ![c].pc = "wunlock"]
    /\ UNCHANGED rwmu /\ NoRegistry

\* Append's body when the element is written before the slice header
AppendWhole(c) ==
    /\ caller[c].pc = "append"
    /\ LET r == StepsAppend(steps, caller[c].op.name, caller[c].op.up, NilFunc)
       IN /\ r.err = Nil
          /\ steps' = r.steps
    /\ caller' = [caller EXCEPT ![c].pc = "wunlock"]
    /\ UNCHANGED rwmu /\ NoRegistry

\* the deferred s.mu.Unlock()
WUnlock(c) ==
    /\ caller[c].pc = "wunlock"
    /\ rwmu' = [rwmu EXCEPT !.writer = "none"]
    /\ caller' = [caller EXCEPT ![c].pc = "done"]
    /\ UNCHANGED steps /\ NoRegistry

\* the method returns to the goroutine
CallerReturn(c) ==
    /\ caller[c].pc = "done"
    /\ caller' = [caller EXCEPT ![c] = NoCaller]
    /\ UNCHANGED <<steps, rwmu>> /\ NoRegistry

\* the steps of the calls in progress
Progress ==
    \E c \in Callers :
        \/ RLock(c) \/ ReadBody(c) \/ RUnlock(c)
        \/ WLock(c) \/ AppendGrow(c) \/ AppendFill(c) \/ AppendWhole(c) \/ WUnlock(c)
        \/ CallerReturn(c)

NextRW ==
    \/ \E c \in Readers, o \in ReadOps : ReadInvoke(c, o)
    \/ \E c \in Writers, name \in RegNames, up \in RegKinds : AppendInvoke(c, name, up)
    \/ Progress

SpecRW == InitRW /\ [][NextRW]_vars

TypeOK ==
    /\ db.table \in BOOLEAN
    /\ Len(db.rows) <= 1
    /\ \A t \in Threads : pc[t] \in {"idle", "lock", "version", "init", "init2", "step", "exec", "cmd", "setv", "ret"}
    /\ ncalls \in 0..MaxCalls

\* ================================================================ claims
\* helpers of the claims
InCall(t) == pc[t] \notin {"idle", "lock"}
TxKinds == {"Tx", "TxF"}
HasEv(L, name) == \E i \in 1..Len(L.events) : L.events[i].ev = name
HasRes(L, o) == \E i \in 1..Len(L.events) : L.events[i].ev = "cmd" /\ L.events[i].res = o
LastEv(L) == L.events[Len(L.events)].ev
\* the version the database holds, as a fault-free read decodes it
Stored(D) == VersionTx(D, {})
\* the step function found another version than info.From() in the database
Mismatch(L) == Stored(L.pre).err # Nil \/ Stored(L.pre).v # L.info.from
\* what a fault-free Migrator.Version call reports on database D
Reported(D) == versionCtx(D, {})

\* C1: a Tx or TxF step reads the database version first thing inside its
\* transaction; when it is not info.From() the step returns an error, runs
\* no command or callback, does not write the version row, rolls the
\* transaction back and leaves the database as it was.
C1_VersionRecheck ==
    \A t \in Threads :
        (last[t].valid /\ last[t].f.kind \in TxKinds /\ Len(last[t].events) > 0) =>
            /\ last[t].events[1].ev = "begin"
            /\ last[t].events[2].ev = "read"
            /\ Mismatch(last[t]) =>
                  /\ last[t].err # Nil
                  /\ ~HasEv(last[t], "cmd")
                  /\ ~HasEv(last[t], "set")
                  /\ LastEv(last[t]) = "rollback"
                  /\ last[t].post = last[t].pre
                  /\ db = last[t].pre
C1_Witness ==
    \E t \in Threads :
        /\ last[t].valid /\ last[t].f.kind \in TxKinds /\ ~last[t].dryRun
        /\ Len(last[t].events) > 0
        /\ Stored(last[t].pre).err = Nil
        /\ Stored(last[t].pre).v # last[t].info.from
        /\ last[t].err # Nil
        /\ pc[t] = "ret"

\* C2: when command k of a Tx step (callback k of a TxF step) fails in a
\* OneUp or OneDown that is not a dry run, the transaction is rolled back:
\* no effect of the step is persisted, no command after k is run, the
\* version row still holds info.From() and the call returns an error.
FailedAt(L, k) ==
    \E i \in 1..Len(L.events) :
        L.events[i].ev = "cmd" /\ L.events[i].cmd = k /\ L.events[i].res \in {"fail", "abort"}
C2_FailedCommandRollsBack ==
    \A t \in Threads : \A k \in 1..NumCmds :
        (/\ last[t].valid /\ last[t].f.kind \in TxKinds
         /\ call[t].op \in {"OneUp", "OneDown"} /\ ~call[t].dryRun
         /\ FailedAt(last[t], k)) =>
            /\ LastEv(last[t]) = "rollback"
            /\ db.data = last[t].pre.data
            /\ db = last[t].pre
            /\ \A i \in 1..Len(last[t].events) : last[t].events[i].cmd <= k
            /\ ~HasEv(last[t], "set")
            /\ Stored(db).err = Nil /\ Stored(db).v = last[t].info.from
            /\ pc[t] = "ret" /\ ret[t] # Nil
C2_Witness ==
    \E t \in Threads :
        /\ last[t].valid /\ last[t].f.kind = "Tx"
        /\ call[t].op = "OneUp" /\ ~call[t].dryRun
        /\ FailedAt(last[t], 2)
        /\ HasRes(last[t], "ok")
        /\ pc[t] = "ret" /\ ret[t] # Nil

\* C3: a dry run changes nothing that is persisted: when InitDryRun,
\* OneUpDryRun or OneDownDryRun returns, with or without error, the database
\* is what it was when the call started, and so is what Version reports.
C3_DryRunNoOp ==
    \A t \in Threads :
        (InCall(t) /\ call[t].dryRun) =>
            /\ db = pre[t].db
            /\ Reported(db) = Reported(pre[t].db)
C3_Witness ==
    \E t \in Threads :
        /\ pc[t] = "ret" /\ call[t].dryRun /\ call[t].op = "OneUp" /\ ret[t] = Nil
        /\ last[t].valid /\ HasEv(last[t], "set") /\ HasRes(last[t], "ok")
        /\ LastEv(last[t]) = "rollback"

\* C4: when OneUp, OneDown, OneUpDryRun or OneDownDryRun returns an error,
\* the cached version is the one cached before the call, and Version
\* reports what it reported before the call.
C4_FailureKeepsVersion ==
    \A t \in Threads :
        (pc[t] = "ret" /\ call[t].op \in {"OneUp", "OneDown"} /\ ret[t] # Nil) =>
            /\ cachedVersion[owner[t]] = pre[t].cache
            /\ Reported(db) = Reported(pre[t].db)
C4_Witness ==
    \E t \in Threads :
        /\ pc[t] = "ret" /\ call[t].op = "OneUp" /\ ~call[t].dryRun /\ ret[t] # Nil
        /\ last[t].valid /\ HasRes(last[t], "ok") /\ HasRes(last[t], "fail")
        /\ pre[t].cache # badVersion

\* C5 as stated: whenever a callback of a TxF step returns Cancel during
\* OneUp, the transaction is rolled back, OneUp returns no error and Version
\* reports the version it reported before the call (info.From()).
C5_Original ==
    \A t \in Threads :
        (/\ last[t].valid /\ last[t].f.kind = "TxF"
         /\ call[t].op = "OneUp" /\ ~call[t].dryRun
         /\ HasRes(last[t], "cancel")) =>
            /\ LastEv(last[t]) = "rollback"
            /\ pc[t] = "ret" /\ ret[t] = Nil
            /\ Reported(db) = Reported(pre[t].db)
            /\ Stored(db).v = last[t].info.from
\* C5 amended: when a callback of a TxF step returns Cancel during OneUp and
\* no callback of the step returns an error other than Cancel, the
\* transaction is rolled back, OneUp returns no error and Version reports the
\* version it reported before the call (info.From()).
C5_CancelReturnsNil ==
    \A t \in Threads :
        (/\ last[t].valid /\ last[t].f.kind = "TxF"
         /\ call[t].op = "OneUp" /\ ~call[t].dryRun
         /\ HasRes(last[t], "cancel")
         /\ ~HasRes(last[t], "fail") /\ ~HasRes(last[t], "abort")) =>
            /\ LastEv(last[t]) = "rollback"
            /\ pc[t] = "ret" /\ ret[t] = Nil
            /\ Reported(db) = Reported(pre[t].db)
            /\ Stored(db).v = last[t].info.from
C5_Witness ==
    \E t \in Threads :
        /\ last[t].valid /\ last[t].f.kind = "TxF"
        /\ call[t].op = "OneUp" /\ ~call[t].dryRun
        /\ HasRes(last[t], "cancel") /\ HasRes(last[t], "ok")
        /\ pc[t] = "ret" /\ ret[t] = Nil
        /\ Stored(db).v = last[t].info.from

\* C6: with one Migrator and no other writer, whenever Init, Version, OneUp,
\* OneDown, AllUp or AllDown (not a dry run) returns without error, the
\* cached version is the version persisted in the database, for every kind of
\* step, a TxF step whose callback returns Cancel included.
C6_CacheCoherence ==
    \A t \in Threads :
        (pc[t] = "ret" /\ ~call[t].dryRun /\ ret[t] = Nil) =>
            /\ Stored(db).err = Nil
            /\ cachedVersion[owner[t]] = Stored(db).v

\* C7: a Cancel returned by a callback of a TxF step during AllUp or AllDown
\* rolls that step back without ending the traversal: the steps after it are
\* executed and applied up to the boundary, and the call returns no error.
C7_CancelContinuesTraversal ==
    \A t \in Threads :
        (pc[t] = "ret" /\ IsAll(call[t])) =>
            \A i \in 1..Len(invoked[t]) :
                invoked[t][i].res = "cancelled" =>
                    /\ ret[t] = Nil
                    /\ \A j \in (i + 1)..Len(invoked[t]) : invoked[t][j].res \in {"applied", "cancelled"}
                    /\ invoked[t][Len(invoked[t])].to = (IF IsUp(call[t]) THEN NumSteps ELSE 0)

\* C8: when a callback of a TxF step returns Abort, the transaction is rolled
\* back, the database and the cached version stay at info.From(), the call
\* returns an error that matches Abort, and AllUp / AllDown stops there: the
\* aborted step is the last one it invoked.
C8_AbortStops ==
    \A t \in Threads :
        (last[t].valid /\ last[t].f.kind = "TxF" /\ HasRes(last[t], "abort")) =>
            /\ LastEv(last[t]) = "rollback"
            /\ db = last[t].pre
            /\ Stored(db).v = last[t].info.from
            /\ cachedVersion[owner[t]] = last[t].info.from
            /\ pc[t] = "ret" /\ Is(ret[t], ErrAbort)
            /\ invoked[t][Len(invoked[t])].to = last[t].info.to.ID
            /\ invoked[t][Len(invoked[t])].res = "failed"
C8_Witness ==
    \E t \in Threads :
        /\ last[t].valid /\ last[t].f.kind = "TxF" /\ HasRes(last[t], "abort")
        /\ call[t].op = "AllUp"
        /\ last[t].info.to.ID < NumSteps
        /\ pc[t] = "ret" /\ Is(ret[t], ErrAbort)

\* C9: a database holding a version written with a registry that differs
\* from the Migrator's in the anchor name or in the name of a step with index
\* up to that version is never moved by this Migrator: Version fails, and
\* OneUp, OneDown, AllUp and AllDown fail without invoking a step and
\* without changing the database.
ForeignVersions ==
    {BuildSteps(ForeignNames(j), AllNil, NumSteps)[i].version :
        j \in 1..(NumSteps + 1), i \in 1..(NumSteps + 1)}
    \ {steps[i].version : i \in 1..Len(steps)}
HoldsForeign(D) == Stored(D).err = Nil /\ Stored(D).v \in ForeignVersions
C9_ForeignRegistryRejected ==
    \A t \in Threads :
        (InCall(t) /\ call[t].op # "Init" /\ HoldsForeign(pre[t].db)) =>
            /\ db = pre[t].db
            /\ invoked[t] = << >>
            /\ pc[t] = "ret" => ret[t] # Nil
C9_Witness ==
    \E t \in Threads :
        /\ pc[t] = "ret" /\ call[t].op = "AllUp" /\ HoldsForeign(pre[t].db)
        /\ Stored(db).v.ID = 1
        /\ Is(ret[t], ErrBadVersion)
        /\ ncalls > 1

\* C10: the public methods of one Migrator exclude each other: at most one
\* call is between taking and releasing the mutex; while a call is there the
\* database and the cache change only by its own steps, so the calls take
\* effect one after the other in the order they took the mutex; the return
\* of the holder frees the mutex, and a caller waiting for a mutex that no
\* call holds can take it.
Holders(m) == {t \in Threads : owner[t] = m /\ InCall(t)}
OneHolder ==
    \A m \in Migrators :
        /\ Cardinality(Holders(m)) <= 1
        /\ \A t \in Holders(m) : mu[m] = t
        /\ Holders(m) = {} => mu[m] = "free"
OwnStep(t) == pc'[t] # pc[t] \/ cur'[t] # cur[t] \/ last'[t] # last[t]
Isolated ==
    (db' # db \/ cachedVersion' # cachedVersion) =>
        \E t \in Threads : InCall(t) /\ OwnStep(t) /\ \A u \in Threads \ {t} : ~OwnStep(u)
Released ==
    \A t \in Threads : (pc[t] = "ret" /\ pc'[t] = "idle") => mu'[owner[t]] = "free"
WaiterProceeds ==
    \A t \in Threads : (pc[t] = "lock" /\ Holders(owner[t]) = {}) => ENABLED Acquire(t)
C10_MutualExclusion ==
    /\ []OneHolder
    /\ [][Isolated /\ Released]_vars
    /\ []WaiterProceeds
C10_Witness ==
    \E t, u \in Threads :
        /\ pc[t] = "cmd" /\ call[t].op = "OneUp" /\ cur[t].k = 2
        /\ pc[u] = "lock" /\ call[u].op = "OneUp"
        /\ owner[t] = owner[u]
\* the run recorded in L committed its transaction
Committed(L) == IF Len(L.events) > 0 THEN LastEv(L) = "commit" ELSE L.post # L.pre
\* the effects one successful run of step function f leaves in the database
OneRun(f) == IF f.kind = "nil" THEN << >>
             ELSE Effects(f, [k \in 1..NumCmds |-> "ok"], NumCmds)
\* t and u called OneUp on two Migrators that both cached the version the
\* database held, and both calls went through a default, Tx or TxF step
Racing(t, u) ==
    /\ t # u /\ owner[t] # owner[u]
    /\ pc[t] = "ret" /\ pc[u] = "ret"
    /\ \A w \in {t, u} :
          /\ call[w] = [op |-> "OneUp", dryRun |-> FALSE]
          /\ last[w].valid /\ last[w].f.kind \in {"nil", "Tx", "TxF"}
          /\ pre[w].cache = pre[t].cache
          /\ Stored(pre[w].db).err = Nil /\ Stored(pre[w].db).v = pre[w].cache

\* C11: when two Migrators on the same database both cached v and run OneUp
\* concurrently through the same default, Tx or TxF step, they never both
\* commit; and when no driver call, command or callback fails in either,
\* exactly one call commits and returns no error, the other returns an
\* error without running a command and commits nothing, the effects of the
\* step are in the database once and the database is at v+1.
C11_CompareAndSwap ==
    \A t, u \in Threads :
        Racing(t, u) =>
            /\ ~(Committed(last[t]) /\ Committed(last[u]))
            /\ (clean[t] /\ clean[u]) =>
                  \E w \in {t, u} : \E l \in {t, u} \ {w} :
                      /\ Committed(last[w]) /\ ret[w] = Nil
                      /\ ~Committed(last[l]) /\ ret[l] # Nil
                      /\ last[l].post = last[l].pre /\ ~HasEv(last[l], "cmd")
                      /\ db.data = pre[t].db.data \o OneRun(last[w].f)
                      /\ Stored(db).err = Nil /\ Stored(db).v = last[w].info.to
                      /\ Stored(db).v.ID = pre[t].cache.ID + 1
                      /\ cachedVersion[owner[w]] = last[w].info.to
                      /\ cachedVersion[owner[l]] = pre[t].cache
C11_Witness ==
    \E t, u \in Threads :
        /\ Racing(t, u) /\ clean[t] /\ clean[u]
        /\ last[t].f.kind = "Tx"
        /\ Committed(last[t]) /\ ret[u] # Nil
        /\ Stored(db).v.ID = 2
\* this step of thread t persists effects of a command or callback
EffectBy(t) == db'.data # db.data /\ OwnStep(t)
\* the database is at the version the step of t starts from
AtFrom(t) == Stored(db).err = Nil /\ Stored(db).v = cur[t].info.from
\* no other writer has changed the version row since the step function of
\* t read it
RowAsRead(t) == db.table = last[t].pre.table /\ db.rows = last[t].pre.rows

\* C12 as stated: for every kind of step and every interleaving with another
\* Migrator on the same database, the commands or callbacks of a step take
\* effect only while the database is at info.From().
C12_Original ==
    [][\A t \in Threads : EffectBy(t) => AtFrom(t)]_vars
\* C12 amended: the commands of a default, Tx or TxF step take effect only
\* while the database is at info.From(), in every interleaving; those of a
\* NoTx or NoTxF step do so as long as no other writer has changed the
\* version row since the step read it.
C12_AppliesAtFrom ==
    [][\A t \in Threads :
          (EffectBy(t) /\ (IsNoTx(cur[t].f) => RowAsRead(t))) => AtFrom(t)]_vars
C12_Witness ==
    \E t, u \in Threads :
        /\ t # u /\ owner[t] # owner[u]
        /\ pc[t] = "setv" /\ IsNoTx(cur[t].f) /\ RowAsRead(t) /\ AtFrom(t)
        /\ Len(db.data) = NumCmds
        /\ pc[u] = "exec" /\ cur[u].info = cur[t].info
\* the database holds a version row
HasRow(D) == D.table /\ Len(D.rows) = 1
\* the database and the cache c are at entry i of the registry
At(D, c, i) == Stored(D).err = Nil /\ Stored(D).v = steps[i + 1].version /\ c = steps[i + 1].version
AtRet(t, op) == pc[t] = "ret" /\ call[t].op = op

\* C13: Init on an uninitialized database, when no driver call fails,
\* returns no error, writes the row of version 0 of the registry and leaves
\* the cache there, so that a Version call returns id 0; an Init or
\* InitDryRun on the database so written fails with ErrAlreadyInitialized
\* and leaves the database and the version as they were.
C13_InitOnce ==
    \A t \in Threads :
        /\ (AtRet(t, "Init") /\ ~call[t].dryRun /\ pre[t].db = EmptyDB /\ clean[t]) =>
              /\ ret[t] = Nil
              /\ db = [EmptyDB EXCEPT !.table = TRUE, !.rows = <<Row(steps[1].version)>>]
              /\ At(db, cachedVersion[owner[t]], 0)
              /\ Reported(db).err = Nil /\ Reported(db).cache.ID = 0
        /\ (AtRet(t, "Version") /\ clean[t] /\ At(pre[t].db, steps[1].version, 0)) =>
              ret[t] = Nil /\ cachedVersion[owner[t]].ID = 0
        /\ (AtRet(t, "Init") /\ clean[t] /\ At(pre[t].db, steps[1].version, 0)) =>
              /\ Is(ret[t], ErrAlreadyInitialized)
              /\ db = pre[t].db
              /\ At(db, cachedVersion[owner[t]], 0)
C13_Witness ==
    \E t \in Threads :
        /\ AtRet(t, "Init") /\ ~call[t].dryRun /\ clean[t]
        /\ At(pre[t].db, pre[t].cache, 0) /\ ncalls = 2
        /\ Is(ret[t], ErrAlreadyInitialized)
        /\ db = [EmptyDB EXCEPT !.table = TRUE, !.rows = <<Row(steps[1].version)>>]

\* C14: Init and InitDryRun never overwrite a version row: when the database
\* holds a version row, whatever it is and whether or not its read fails,
\* the call fails with ErrAlreadyInitialized and the row is unchanged.
C14_InitNeverOverwrites ==
    \A t \in Threads :
        (AtRet(t, "Init") /\ HasRow(pre[t].db)) =>
            /\ Is(ret[t], ErrAlreadyInitialized)
            /\ db = pre[t].db
\* index of the last entry of the registry
LastID == Len(steps) - 1

\* C15: for a registry of any length, when no driver call, command or
\* callback fails: Init on the uninitialized database returns no error and
\* leaves the database and the cache at version 0; AllUp from there returns
\* no error and leaves them at the last version; AllDown from there returns
\* no error and leaves them at version 0.
C15_FullTraversal ==
    \A t \in Threads :
        /\ (AtRet(t, "Init") /\ ~call[t].dryRun /\ clean[t] /\ pre[t].db = EmptyDB) =>
              ret[t] = Nil /\ At(db, cachedVersion[owner[t]], 0)
        /\ (AtRet(t, "AllUp") /\ clean[t] /\ At(pre[t].db, pre[t].cache, 0)) =>
              ret[t] = Nil /\ At(db, cachedVersion[owner[t]], LastID)
        /\ (AtRet(t, "AllDown") /\ clean[t] /\ At(pre[t].db, pre[t].cache, LastID)) =>
              ret[t] = Nil /\ At(db, cachedVersion[owner[t]], 0)
C15_Witness ==
    \E t \in Threads :
        /\ AtRet(t, "AllDown") /\ clean[t] /\ ncalls = 3
        /\ Len(steps) = NumSteps + 1 /\ Len(invoked[t]) = NumSteps
        /\ Len(db.data) = 2 * NumSteps * NumCmds
        /\ ret[t] = Nil /\ At(db, cachedVersion[owner[t]], 0)
\* C16: AllUp and AllDown never return ErrEndOfSteps; called with the
\* database and the cache at any version v of the registry, and with no
\* driver call, command or callback failing, AllUp returns no error after
\* the steps v+1 .. N-1 with database and cache at N-1, and AllDown returns
\* no error after the steps v .. 1 with database and cache at 0, also when
\* v is already the boundary and no step is left.
C16_EndOfStepsIsSuccess ==
    \A t \in Threads :
        /\ (pc[t] = "ret" /\ IsAll(call[t])) => ~Is(ret[t], ErrEndOfSteps)
        /\ \A v \in 0..LastID :
              /\ (AtRet(t, "AllUp") /\ clean[t] /\ At(pre[t].db, pre[t].cache, v)) =>
                    /\ ret[t] = Nil
                    /\ At(db, cachedVersion[owner[t]], LastID)
                    /\ Len(invoked[t]) = LastID - v
                    /\ \A i \in 1..Len(invoked[t]) :
                          invoked[t][i].to = v + i /\ invoked[t][i].res = "applied"
              /\ (AtRet(t, "AllDown") /\ clean[t] /\ At(pre[t].db, pre[t].cache, v)) =>
                    /\ ret[t] = Nil
                    /\ At(db, cachedVersion[owner[t]], 0)
                    /\ Len(invoked[t]) = v
                    /\ \A i \in 1..Len(invoked[t]) :
                          invoked[t][i].to = v - i /\ invoked[t][i].res = "applied"
C16_Witness ==
    \E t \in Threads :
        /\ AtRet(t, "AllUp") /\ clean[t]
        /\ At(pre[t].db, pre[t].cache, LastID)
        /\ invoked[t] = << >> /\ ret[t] = Nil
        /\ ncalls = 3
\* C17: when a step of AllUp or AllDown, called with the database and the
\* cache at version v, fails, the call returns the error of that step at
\* once: the failed step is the last one invoked, and the database and the
\* cache are both at the version that step started from, the one reached
\* by the steps applied before it.
C17_FailureStopsTraversal ==
    \A t \in Threads :
        (pc[t] = "ret" /\ IsAll(call[t]) /\ \E v \in 0..LastID : At(pre[t].db, pre[t].cache, v)) =>
            \A i \in 1..Len(invoked[t]) :
                invoked[t][i].res = "failed" =>
                    /\ i = Len(invoked[t])
                    /\ ret[t] # Nil /\ ret[t] = last[t].err /\ ~Is(ret[t], ErrEndOfSteps)
                    /\ At(db, cachedVersion[owner[t]], invoked[t][i].from)
\* C18: OneDown and OneDownDryRun with the cache at version 0, and OneUp and
\* OneUpDryRun with the cache at the last version, fail with ErrEndOfSteps,
\* invoke no step operation and leave the database and the cache as they
\* were; the cache never holds a version outside the registry.
C18_Boundaries ==
    \A t \in Threads :
        /\ ((AtRet(t, "OneDown") /\ pre[t].cache = steps[1].version)
              \/ (AtRet(t, "OneUp") /\ pre[t].cache = steps[Len(steps)].version)) =>
                /\ Is(ret[t], ErrEndOfSteps)
                /\ invoked[t] = << >> /\ ~last[t].valid
                /\ db = pre[t].db
                /\ cachedVersion[owner[t]] = pre[t].cache
        /\ \A m \in Migrators :
              cachedVersion[m] # badVersion =>
                  \E i \in 0..LastID : cachedVersion[m] = steps[i + 1].version
C18_Witness ==
    \E t \in Threads :
        /\ AtRet(t, "OneUp") /\ call[t].dryRun
        /\ At(pre[t].db, pre[t].cache, LastID)
        /\ Is(ret[t], ErrEndOfSteps) /\ db = pre[t].db
\* the registry rejects the version the database holds
Rejected(D) == Stored(D).err = Nil /\ check(steps, Stored(D).v) # Nil

C20_DryRunSameChecks ==
    \A t \in Threads :
        (/\ pc[t] = "ret" /\ call[t].op \in {"OneUp", "OneDown"} /\ call[t].dryRun
         /\ last[t].valid /\ Mismatch(last[t])) =>
            ret[t] # Nil
\* C21: a NoTx or NoTxF step called with dryRun does nothing: it returns no
\* error, reads no version, starts no transaction, runs no command or
\* callback and writes nothing; the dry-run call around it returns no error
\* and leaves the database and the cache as they were.
C21_NoTxDryRunIdle ==
    \A t \in Threads :
        (last[t].valid /\ IsNoTx(last[t].f) /\ last[t].dryRun) =>
            /\ last[t].err = Nil
            /\ last[t].events = << >>
            /\ last[t].post = last[t].pre
            /\ db = pre[t].db
            /\ cachedVersion[owner[t]] = pre[t].cache
            /\ pc[t] = "ret" /\ ret[t] = Nil
C21_Witness ==
    \E t \in Threads :
        /\ last[t].valid /\ last[t].f.kind = "NoTxF" /\ last[t].dryRun
        /\ AtRet(t, "OneDown") /\ ret[t] = Nil
        /\ At(db, cachedVersion[owner[t]], LastID)

\* C22: in a NoTxF step a callback that returns ErrCancel or ErrAbort ends
\* the step: no later callback runs, the step and the call return an error
\* that matches the one of the callback (ErrCancel is not turned into nil),
\* the version row stays at info.From(), and AllUp / AllDown stops there.
C22_NoTxFCancelIsError ==
    \A t \in Threads : \A o \in {"cancel", "abort"} :
        (last[t].valid /\ last[t].f.kind = "NoTxF" /\ HasRes(last[t], o)) =>
            /\ last[t].events[Len(last[t].events)].res = o
            /\ ~HasEv(last[t], "set")
            /\ last[t].err # Nil
            /\ Is(last[t].err, IF o = "cancel" THEN ErrCancel ELSE ErrAbort)
            /\ Stored(db).err = Nil /\ Stored(db).v = last[t].info.from
            /\ cachedVersion[owner[t]] = last[t].info.from
            /\ pc[t] = "ret" /\ ret[t] = last[t].err
            /\ invoked[t][Len(invoked[t])].to = last[t].info.to.ID
            /\ invoked[t][Len(invoked[t])].res = "failed"
C22_Witness ==
    \E t \in Threads :
        /\ last[t].valid /\ last[t].f.kind = "NoTxF" /\ HasRes(last[t], "cancel")
        /\ HasRes(last[t], "ok")
        /\ call[t].op = "AllUp" /\ last[t].info.to.ID < NumSteps
        /\ pc[t] = "ret" /\ Is(ret[t], ErrCancel)
\* the StepInfo values Up and Down give for the registry r
InfosOf(r) == {Up(r, r[i].version).info : i \in 1..(Len(r) - 1)}
              \cup {Down(r, r[i].version).info : i \in 2..Len(r)}
\* those of the registry of the Migrator and of the registries that differ
\* from it in one name
AnyInfos == InfosOf(steps)
            \cup UNION {InfosOf(BuildSteps(ForeignNames(j), AllNil, NumSteps)) : j \in 1..(NumSteps + 1)}
\* the version row of D is the one of version v, id and checksum
RowIs(D, v) == HasRow(D) /\ D.rows[1] = Row(v)

\* C23: SetVersionTx is a compare-and-swap on the version row.  On every
\* database the program reaches and for every StepInfo, the UPDATE, when the
\* driver runs it, leaves the row of info.To() and no error if the row is
\* the one of info.From(), id and checksum, and else leaves the row as it
\* is and fails with ErrBadVersion; when the driver fails the row is
\* unchanged.  So a default step (SetVersion) changes the database only
\* from the row of info.From() to the row of info.To(), and on any other
\* row it returns an error, ErrBadVersion when no driver call fails, and
\* leaves the database as it was.
C23_SetVersionIsCAS ==
    /\ \A info \in AnyInfos :
          /\ LET r == SetVersionTx(db, info, {})
             IN IF RowIs(db, info.from)
                THEN r.err = Nil /\ RowIs(r.db, info.to)
                     /\ r.db = [db EXCEPT !.rows = <<Row(info.to)>>]
                ELSE r.db = db /\ (db.table => r.err = {ErrBadVersion})
          /\ SetVersionTx(db, info, {"exec"}).db = db
          /\ SetVersionTx(db, info, {"exec"}).err # Nil
    /\ \A t \in Threads :
          (last[t].valid /\ last[t].f.kind = "nil") =>
              /\ last[t].post # last[t].pre =>
                    /\ RowIs(last[t].pre, last[t].info.from)
                    /\ last[t].post = [last[t].pre EXCEPT !.rows = <<Row(last[t].info.to)>>]
                    /\ last[t].err = Nil /\ ~last[t].dryRun
              /\ ~RowIs(last[t].pre, last[t].info.from) =>
                    /\ last[t].post = last[t].pre
                    /\ last[t].err # Nil
                    /\ (clean[t] /\ last[t].pre.table) => Is(last[t].err, ErrBadVersion)
C23_Witness ==
    \E t, u \in Threads :
        /\ t # u /\ owner[t] = "m1" /\ owner[u] = "m2"
        /\ AtRet(t, "OneUp") /\ ~call[t].dryRun /\ clean[t]
        /\ last[t].valid /\ last[t].f.kind = "nil"
        /\ HasRow(last[t].pre) /\ ~RowIs(last[t].pre, last[t].info.from)
        /\ RowIs(last[t].pre, last[t].info.to)
        /\ Is(ret[t], ErrBadVersion) /\ last[t].post = last[t].pre
        /\ last[u].valid /\ last[u].post # last[u].pre
\* the events of a run that finalize its transaction
FinalEvs == {"commit", "commitfail", "rollback"}
Finals(evs) == {i \in 1..Len(evs) : evs[i].ev \in FinalEvs}
\* the transaction of the run with events evs was started once and
\* finalized once, by the last call the run made
OnceFinalized(evs) ==
    /\ {i \in 1..Len(evs) : evs[i].ev = "begin"} = {1}
    /\ Finals(evs) = {Len(evs)}
\* the step function of t applied to the database as it is, and the body of
\* that function up to its return
RunOf(t, outs, faults) ==
    IF cur[t].f.kind = "Tx" THEN Tx(db, cur[t].f, cur[t].info, call[t].dryRun, outs, faults)
    ELSE TxF(db, cur[t].f, cur[t].info, call[t].dryRun, outs, faults)
BodyOf(t, outs, faults) ==
    IF cur[t].f.kind = "Tx" THEN TxBody(db, cur[t].f, cur[t].info, outs, faults)
    ELSE TxFBody(db, cur[t].f, cur[t].info, outs, faults)
OutsOf(t) == [1..NumCmds -> IF cur[t].f.kind = "Tx" THEN CmdOutcomes ELSE FuncOutcomes]

\* C24: every transaction is finalized exactly once before the function
\* that started it returns.  A Tx or TxF step that could start its
\* transaction makes exactly one call of Commit or Rollback, as its last
\* call: Commit if and only if its body returned no error and dryRun is
\* false, Rollback otherwise; if StartTransaction failed there is nothing
\* to finalize.  The database changes only by a Commit that succeeded.
\* Version calls Commit when its read succeeded and Rollback when it failed.
\* SetVersion and InitVersion change the database only with no error and
\* dryRun false, and do so whenever no driver call fails, dryRun is false and
\* their statements succeed.
C24_FinalizedOnce ==
    \A t \in Threads :
        /\ (last[t].valid /\ last[t].f.kind \in TxKinds) =>
              /\ last[t].events # << >> => OnceFinalized(last[t].events)
              /\ last[t].post # last[t].pre <=>
                    (last[t].events # << >> /\ LastEv(last[t]) = "commit" /\ last[t].info.from # last[t].info.to)
              /\ (last[t].events # << >> /\ LastEv(last[t]) \in {"commit", "commitfail"}) =>
                    ~last[t].dryRun /\ HasEv(last[t], "set")
        /\ (pc[t] = "exec" /\ cur[t].f.kind \in TxKinds) =>
              \A faults \in FaultSets : \A outs \in OutsOf(t) :
                  LET r == RunOf(t, outs, faults)
                      pending == BodyOf(t, outs, faults).err
                  IN IF "begin" \in faults
                     THEN r.events = << >> /\ r.db = db /\ Is(r.err, ErrBeginTx)
                     ELSE /\ OnceFinalized(r.events)
                          /\ LastEv(r) \in {"commit", "commitfail"} <=> (pending = Nil /\ ~call[t].dryRun)
                          /\ LastEv(r) = "rollback" <=> (pending # Nil \/ call[t].dryRun)
                          /\ r.db # db => LastEv(r) = "commit"
        /\ (pc[t] = "exec" /\ cur[t].f.kind = "nil") =>
              \A faults \in FaultSets :
                  LET r == SetVersion(db, cur[t].info, call[t].dryRun, faults)
                  IN /\ r.db # db => (r.err = Nil /\ ~call[t].dryRun)
                     /\ (faults = {} /\ ~call[t].dryRun /\ SetVersionTx(db, cur[t].info, {}).err = Nil) =>
                           r.db = SetVersionTx(db, cur[t].info, {}).db /\ r.err = Nil
        /\ pc[t] = "version" =>
              \A faults \in FaultSets \ {fs \in FaultSets : "begin" \in fs} :
                  LET r == DBVersion(db, faults)
                      pending == VersionTx(db, faults).err
                  IN /\ Is(r.err, ErrCommitTx) <=> (pending = Nil /\ "commit" \in faults)
                     /\ Is(r.err, ErrRollbackTx) <=> (pending # Nil /\ "rollback" \in faults)
        /\ pc[t] = "init2" =>
              \A faults \in FaultSets :
                  LET r == InitVersion(db, steps[1].version, call[t].dryRun, faults)
                  IN /\ r.db # db => (r.err = Nil /\ ~call[t].dryRun)
                     /\ (faults = {} /\ ~call[t].dryRun /\ ~db.table) =>
                           r.db # db /\ r.err = Nil
C24_Witness ==
    \E t \in Threads :
        /\ last[t].valid /\ last[t].f.kind = "TxF" /\ ~last[t].dryRun
        /\ OnceFinalized(last[t].events)
        /\ LastEv(last[t]) = "commitfail" /\ HasEv(last[t], "set")
        /\ last[t].post = last[t].pre /\ Is(last[t].err, ErrCommitTx)
        /\ pc[t] = "ret" /\ Is(ret[t], ErrCommitTx)
\* the Rollback of the run recorded in L returned an error
RollbackFailed(L) ==
    /\ L.events # << >>
    /\ LastEv(L) = "rollback" /\ L.events[Len(L.events)].res = "fail"

\* C25: whenever the rollback of the transaction of a Tx or TxF step fails,
\* the step function returns an error that matches ErrRollbackTx, and that
\* also matches the error that was pending: the one of the failed command
\* or callback, ErrAbort, or ErrCancel when a callback cancelled; in a dry
\* run with no error pending it matches ErrRollbackTx.
C25_RollbackFailureSurfaced ==
    \A t \in Threads :
        (last[t].valid /\ last[t].f.kind \in TxKinds /\ RollbackFailed(last[t])) =>
            /\ Is(last[t].err, ErrRollbackTx)
            /\ HasRes(last[t], "fail") => Is(last[t].err, "other")
            /\ HasRes(last[t], "abort") => Is(last[t].err, ErrAbort)
            /\ (HasRes(last[t], "cancel") /\ ~HasRes(last[t], "fail") /\ ~HasRes(last[t], "abort")) =>
                  Is(last[t].err, ErrCancel)
\* number of entries of the registry, and whether id is the id of an entry
N == Len(steps)
InRange(id) == id \in 0..(N - 1)
\* v is a version of the registry: the version of its entry v.ID
Valid(v) == InRange(v.ID) /\ steps[v.ID + 1].version = v

\* C26: Version(id), Name(id) and Check(v) fail with ErrBadVersionID
\* exactly when the id is outside [0, N), and Version and Name return the
\* version and the name of entry id otherwise; Check(v) with an id in range
\* fails with ErrBadVersionChecksum exactly when the checksum of v differs
\* from the one of entry v.ID, and returns no error otherwise; out of range
\* it fails with ErrBadVersionID whatever the checksum.
C26_RegistryValidation ==
    /\ reg.op = "Version" =>
          /\ Is(reg.err, ErrBadVersionID) <=> ~InRange(reg.id)
          /\ InRange(reg.id) => (reg.err = Nil /\ reg.version = steps[reg.id + 1].version)
          /\ ~InRange(reg.id) => reg.version = badVersion
    /\ reg.op = "Name" =>
          /\ Is(reg.err, ErrBadVersionID) <=> ~InRange(reg.id)
          /\ InRange(reg.id) => (reg.err = Nil /\ reg.name = steps[reg.id + 1].name)
    /\ reg.op = "Check" =>
          /\ Is(reg.err, ErrBadVersionID) <=> ~InRange(reg.v.ID)
          /\ ~InRange(reg.v.ID) => ~Is(reg.err, ErrBadVersionChecksum)
          /\ InRange(reg.v.ID) =>
                /\ Is(reg.err, ErrBadVersionChecksum) <=>
                      reg.v.Checksum # steps[reg.v.ID + 1].version.Checksum
                /\ reg.v.Checksum = steps[reg.v.ID + 1].version.Checksum => reg.err = Nil
C26_Witness ==
    /\ N = NumSteps + 1
    /\ reg.op = "Check" /\ reg.v.ID = 1
    /\ reg.v.Checksum = steps[1].version.Checksum
    /\ Is(reg.err, ErrBadVersionChecksum)

\* C27: for every version v of the registry with v.ID < N-1, Up(v) returns
\* no error, the StepInfo with from = version of entry v.ID, to = version
\* of entry v.ID+1 and name = name of entry v.ID+1, and the up operation
\* that was appended with entry v.ID+1, nil when none was.
C27_UpInfo ==
    /\ (reg.op = "Up" /\ Valid(reg.v) /\ reg.v.ID < N - 1) =>
          /\ reg.err = Nil
          /\ reg.info.from = steps[reg.v.ID + 1].version /\ reg.info.from = reg.v
          /\ reg.info.to = steps[reg.v.ID + 2].version /\ reg.info.to.ID = reg.v.ID + 1
          /\ reg.info.name = steps[reg.v.ID + 2].name
          /\ reg.f = steps[reg.v.ID + 2].up
          /\ reg.f # NilFunc => reg.f.tag = [step |-> reg.v.ID + 1, dir |-> "up"]
    /\ (reg.op = "Append" /\ reg.err = Nil) =>
          /\ steps[N].up = reg.up /\ steps[N].name = reg.name
          /\ Up(steps, steps[N - 1].version).f = reg.up
C27_Witness ==
    /\ N = NumSteps + 1
    /\ reg.op = "Up" /\ Valid(reg.v) /\ reg.v.ID = N - 2
    /\ reg.err = Nil /\ reg.f = NilFunc
    /\ steps[N].down # NilFunc /\ steps[N - 1].up # NilFunc

\* C28: for every version v of the registry with v.ID >= 1, Down(v)
\* returns no error, the StepInfo with from = version of entry v.ID, to =
\* version of entry v.ID-1 and name = name of entry v.ID, and the down
\* operation that was appended with entry v.ID, not the one of entry v.ID-1.
C28_DownInfo ==
    /\ (reg.op = "Down" /\ Valid(reg.v) /\ reg.v.ID >= 1) =>
          /\ reg.err = Nil
          /\ reg.info.from = steps[reg.v.ID + 1].version /\ reg.info.from = reg.v
          /\ reg.info.to = steps[reg.v.ID].version /\ reg.info.to.ID = reg.v.ID - 1
          /\ reg.info.name = steps[reg.v.ID + 1].name
          /\ reg.f = steps[reg.v.ID + 1].down
          /\ reg.f # NilFunc => reg.f.tag = [step |-> reg.v.ID, dir |-> "down"]
    /\ (reg.op = "Append" /\ reg.err = Nil) =>
          /\ steps[N].down = reg.down
          /\ Down(steps, steps[N].version).f = reg.down
C28_Witness ==
    /\ N = NumSteps + 1
    /\ reg.op = "Down" /\ Valid(reg.v) /\ reg.v.ID = N - 1
    /\ reg.err = Nil /\ reg.f # NilFunc /\ reg.f.tag.dir = "down"
    /\ steps[N - 1].down = NilFunc /\ steps[N].up = NilFunc

\* C29: round trip.  When Up(v) on a version v of the registry that is not
\* the last returns info u, Down(u.to) returns no error and an info whose
\* to is v and whose from is u.to; when Down(v) on a version with id >= 1
\* returns info d, Up(d.to) returns no error and an info whose to is v.
C29_RoundTrip ==
    /\ (reg.op = "Up" /\ Valid(reg.v) /\ reg.v.ID < N - 1) =>
          /\ reg.err = Nil
          /\ Down(steps, reg.info.to).err = Nil
          /\ Down(steps, reg.info.to).info.to = reg.v
          /\ Down(steps, reg.info.to).info.from = reg.info.to
    /\ (reg.op = "Down" /\ Valid(reg.v) /\ reg.v.ID >= 1) =>
          /\ reg.err = Nil
          /\ Up(steps, reg.info.to).err = Nil
          /\ Up(steps, reg.info.to).info.to = reg.v
C29_Witness ==
    /\ N = NumSteps + 1
    /\ reg.op = "Up" /\ Valid(reg.v) /\ reg.v.ID = 0
    /\ reg.err = Nil
    /\ Down(steps, reg.info.to).info.to = reg.v

\* the names of the entries of the registry, and the name sequences of the
\* same length over the names in use
NamesOf(r) == [i \in 1..Len(r) |-> r[i].name]
NameSeqs == [1..N -> {RootName, ForeignName} \cup {StepName(i) : i \in 1..NumSteps}]
\* the registry NewSteps and Append build from a name sequence
Built(names) == BuildSteps(names, AllNil, Len(names) - 1)
\* the bytes Append digests for entry i: the checksum of entry i-1, the id
\* and the name
ChainInput(r, i) == r[i].version.Checksum \o <<i>> \o <<r[i + 1].name>>

\* C30: checksum chaining.  Entry 0 has checksum H(anchor name), entry
\* i >= 1 has id i and checksum H(checksum of entry i-1, i, name of entry
\* i).  A registry built from the same names has the same version at every
\* index, whatever its operations; a registry built from names that first
\* differ at index k has the same versions below k and another checksum at
\* every index from k on.
C30_ChecksumChaining ==
    /\ steps[1].version = [ID |-> 0, Checksum |-> Sum256(<<steps[1].name>>)]
    /\ \A i \in 1..(N - 1) :
          steps[i + 1].version = [ID |-> i, Checksum |-> Sum256(ChainInput(steps, i))]
    /\ \A names \in NameSeqs :
          LET other == Built(names)
              diff == {i \in 1..N : names[i] # steps[i].name}
          IN /\ Len(other) = N
             /\ \A i \in 1..N :
                   IF \E j \in diff : j <= i
                   THEN other[i].version.Checksum # steps[i].version.Checksum
                   ELSE other[i].version = steps[i].version
C30_Witness ==
    /\ N = NumSteps + 1
    /\ steps[N].up # NilFunc
    /\ reg.op = "Version" /\ reg.id = N - 1 /\ reg.err = Nil
    /\ reg.version = Built(NamesOf(steps))[N].version
    /\ reg.version # Built([NamesOf(steps) EXCEPT ![1] = ForeignName])[N].version
\* this step is a call of Append with the given name
Appends(name) == reg'.op = "Append" /\ reg'.name = name

\* C31: Append with an empty name fails with ErrBadParameters and leaves
\* the registry unchanged, same length and same entries; Append with a
\* non-empty name returns no error.
C31_AppendValidation ==
    [][/\ Appends("") => (Is(reg'.err, ErrBadParameters) /\ steps' = steps)
       /\ \A name \in RegNames \ {""} : Appends(name) => reg'.err = Nil]_vars
\* C32: a step whose selected operation is nil runs the default step of the
\* database and nothing else.  A successful run that is not a dry run
\* finds the row of info.From(), leaves the row of info.To() and changes
\* nothing else in the database, and the cache moves to info.To().  A dry
\* run executes the same update and rolls it back: the database is left
\* as it was, and the run returns no error exactly when the update and the
\* rollback succeed.
C32_DefaultStep ==
    \A t \in Threads :
        /\ (last[t].valid /\ last[t].f.kind = "nil") =>
              /\ last[t].f = NilFunc /\ last[t].events = << >>
              /\ (last[t].err = Nil /\ ~last[t].dryRun) =>
                    /\ RowIs(last[t].pre, last[t].info.from)
                    /\ last[t].post = [last[t].pre EXCEPT !.rows = <<Row(last[t].info.to)>>]
                    /\ db = last[t].post
                    /\ cachedVersion[owner[t]] = last[t].info.to
              /\ last[t].dryRun =>
                    /\ last[t].post = last[t].pre /\ db = last[t].pre
                    /\ cachedVersion[owner[t]] = pre[t].cache
                    /\ clean[t] => (last[t].err = Nil <=> RowIs(last[t].pre, last[t].info.from))
        /\ (pc[t] = "exec" /\ cur[t].f.kind = "nil" /\ call[t].dryRun) =>
              \A faults \in FaultSets :
                  LET r == DefaultStepFunc(db, cur[t].info, TRUE, faults)
                  IN /\ r.db = db
                     /\ "begin" \notin faults =>
                           (r.err = Nil <=>
                              (SetVersionTx(db, cur[t].info, faults).err = Nil /\ "rollback" \notin faults))
C32_Witness ==
    \E t \in Threads :
        /\ AtRet(t, "OneDown") /\ ~call[t].dryRun /\ ret[t] = Nil
        /\ last[t].valid /\ last[t].f = NilFunc
        /\ steps[last[t].info.to.ID + 1].down # NilFunc
        /\ RowIs(pre[t].db, last[t].info.from) /\ RowIs(db, last[t].info.to)
        /\ db.data = pre[t].db.data
        /\ cachedVersion[owner[t]] = last[t].info.to
\* the calls that run steps
StepOps == {"OneUp", "OneDown", "AllUp", "AllDown"}
\* a call that runs steps finds the bad sentinel in the cache: it goes
\* from the lookup in the registry straight to its return, runs no step
\* function, leaves the database and the cache alone and returns
\* ErrBadVersion
BadCacheFails ==
    \A t \in Threads :
        (InCall(t) /\ call[t].op \in StepOps /\ pre[t].cache = badVersion) =>
            /\ pc[t] \in {"step", "ret"}
            /\ invoked[t] = << >> /\ ~last[t].valid
            /\ db = pre[t].db
            /\ cachedVersion[owner[t]] = badVersion
            /\ pc[t] = "ret" => (Is(ret[t], ErrBadVersion) /\ ~Is(ret[t], ErrEndOfSteps))
\* the cache of m leaves the bad sentinel in this step
Validated(m) == cachedVersion[m] = badVersion /\ cachedVersion'[m] # badVersion
\* this step is the return of a call of op by a thread of m
Returns(m, t, op) == owner[t] = m /\ call[t].op = op /\ pc[t] # "ret" /\ pc'[t] = "ret"

\* C33 as stated: with the bad sentinel in the cache every OneUp, OneDown,
\* AllUp, AllDown and dry-run variant fails with ErrBadVersion without
\* running a step and without touching the database; the cache holds the
\* bad sentinel after a failed Version, after a failed Init and after
\* InitDryRun, and leaves it only by a Version or Init that returns no error.
C33_Original ==
    /\ []BadCacheFails
    /\ [](\A t \in Threads :
            /\ (AtRet(t, "Version") /\ ret[t] # Nil) => cachedVersion[owner[t]] = badVersion
            /\ (AtRet(t, "Init") /\ (ret[t] # Nil \/ call[t].dryRun)) =>
                  cachedVersion[owner[t]] = badVersion)
    /\ [][\A m \in Migrators : Validated(m) =>
             \E t \in Threads :
                 /\ Returns(m, t, "Version") \/ Returns(m, t, "Init")
                 /\ ~call[t].dryRun /\ ret'[t] = Nil]_vars
\* C33 amended: the same, except that an Init or InitDryRun that fails with
\* ErrAlreadyInitialized has read a version of the registry and leaves it
\* in the cache: the cache holds the bad sentinel after a failed Version,
\* after an Init that fails with another error and after an InitDryRun
\* that does not return ErrAlreadyInitialized, and leaves it only by a
\* Version or Init that returns no error or by an Init or InitDryRun that
\* returns ErrAlreadyInitialized.
C33_BadCacheBlocksSteps ==
    /\ []BadCacheFails
    /\ [](\A t \in Threads :
            /\ (AtRet(t, "Version") /\ ret[t] # Nil) => cachedVersion[owner[t]] = badVersion
            /\ (AtRet(t, "Init") /\ (ret[t] # Nil \/ call[t].dryRun)
                   /\ ~Is(ret[t], ErrAlreadyInitialized)) =>
                  cachedVersion[owner[t]] = badVersion
            /\ (AtRet(t, "Init") /\ Is(ret[t], ErrAlreadyInitialized)) =>
                  /\ cachedVersion[owner[t]] = Stored(db).v
                  /\ Valid(cachedVersion[owner[t]]))
    /\ [][\A m \in Migrators : Validated(m) =>
             \E t \in Threads :
                 \/ Returns(m, t, "Version") /\ ret'[t] = Nil
                 \/ Returns(m, t, "Init") /\ ~call[t].dryRun /\ ret'[t] = Nil
                 \/ Returns(m, t, "Init") /\ Is(ret'[t], ErrAlreadyInitialized)]_vars
C33_Witness ==
    \E t \in Threads :
        /\ AtRet(t, "AllUp") /\ pre[t].cache = badVersion
        /\ RowIs(db, steps[1].version) /\ ncalls = 2
        /\ Is(ret[t], ErrBadVersion) /\ invoked[t] = << >>
\* the number of steps between the cached version c and the boundary the
\* call of thread t moves to
Remaining(t, c) == IF IsUp(call[t]) THEN LastID - c.ID ELSE c.ID
\* thread t ends an iteration of the loop of AllUp / AllDown in this step
\* and starts another
Iterates(t) == IsAll(call[t]) /\ pc[t] \in {"exec", "cmd", "setv"} /\ pc'[t] = "step"

\* C34: AllUp and AllDown terminate.  Called with the version v of the
\* registry in the cache, AllUp invokes at most N-1-v step operations and
\* AllDown at most v, one for each id in turn; every iteration returns or
\* moves the cached id by exactly one toward the boundary, also when the
\* step is a TxF step whose callback returns ErrCancel; and the lookup
\* that follows an iteration is never blocked.
C34_Terminates ==
    /\ [](\A t \in Threads :
            (InCall(t) /\ IsAll(call[t]) /\ pc[t] # "version" /\ Valid(pre[t].cache)) =>
                /\ Len(invoked[t]) <= Remaining(t, pre[t].cache)
                /\ \A i \in 1..Len(invoked[t]) :
                      /\ invoked[t][i].from = pre[t].cache.ID + (IF IsUp(call[t]) THEN i - 1 ELSE 1 - i)
                      /\ invoked[t][i].to = pre[t].cache.ID + (IF IsUp(call[t]) THEN i ELSE 0 - i)
                /\ pc[t] = "step" =>
                      /\ Remaining(t, cachedVersion[owner[t]]) =
                            Remaining(t, pre[t].cache) - Len(invoked[t])
                      /\ ENABLED StepLookup(t))
    /\ [][\A t \in Threads :
             Iterates(t) =>
                 /\ Valid(cachedVersion'[owner[t]])
                 /\ Remaining(t, cachedVersion'[owner[t]]) = Remaining(t, cachedVersion[owner[t]]) - 1
                 /\ Remaining(t, cachedVersion'[owner[t]]) >= 0]_vars
C34_Witness ==
    \E t \in Threads :
        /\ AtRet(t, "AllDown") /\ pre[t].cache = steps[N].version
        /\ Len(invoked[t]) = NumSteps
        /\ invoked[t][1].res = "cancelled"
        /\ cachedVersion[owner[t]].ID = 1
\* the database has no version table
Uninitialized(D) == ~D.table /\ D.rows = << >>
\* the database holds exactly one version row, the one of an entry of the
\* registry
AtEntry(D) == HasRow(D) /\ \E i \in 1..N : D.rows[1] = Row(steps[i].version)

\* thread t is at the return of a OneUp or OneDown that is not a dry run
\* and returns no error
StepDone(t) ==
    pc[t] = "ret" /\ call[t].op \in {"OneUp", "OneDown"} /\ ~call[t].dryRun /\ ret[t] = Nil
\* the id the call of t moves by
Delta(t) == IF IsUp(call[t]) THEN 1 ELSE 0 - 1
\* the database is uninitialized or at an entry of the registry, and every
\* cache is the bad sentinel or a version of the registry
EntryOrNone ==
    /\ Uninitialized(db) \/ AtEntry(db)
    /\ \A m \in Migrators : cachedVersion[m] = badVersion \/ Valid(cachedVersion[m])

\* C35 as stated: on a database that started uninitialized, after any
\* sequence of Migrator calls the database is uninitialized or holds
\* exactly one version row, equal to an entry of the registry; a OneUp
\* (OneDown) that is not a dry run and returns no error has changed the
\* persisted id by exactly +1 (-1); the cache is the bad sentinel or a
\* version of the registry.
C35_Original ==
    /\ EntryOrNone
    /\ \A t \in Threads :
          StepDone(t) =>
              /\ AtEntry(pre[t].db)
              /\ Stored(db).v.ID = Stored(pre[t].db).v.ID + Delta(t)
\* C35 amended: the same, except that a OneUp or OneDown whose TxF step
\* had a callback return ErrCancel returns no error and leaves the
\* persisted version as it was.
C35_StateInvariant ==
    /\ EntryOrNone
    /\ \A t \in Threads :
          StepDone(t) =>
              /\ AtEntry(pre[t].db)
              /\ IF HasRes(last[t], "cancel")
                 THEN last[t].f.kind = "TxF" /\ db = pre[t].db
                 ELSE Stored(db).v.ID = Stored(pre[t].db).v.ID + Delta(t)
C35_Witness ==
    \E t \in Threads :
        /\ StepDone(t) /\ call[t].op = "OneDown" /\ ncalls = 3
        /\ pre[t].db.data # << >>
        /\ ~HasRes(last[t], "cancel") /\ HasEv(last[t], "cmd")
        /\ AtEntry(db) /\ Stored(db).v.ID = Stored(pre[t].db).v.ID - 1
        /\ Valid(cachedVersion[owner[t]])
\* the callbacks the run recorded in L invoked, in the order of the calls,
\* and their outcomes
CmdsOf(L) == SelectSeq(L.events, LAMBDA e : e.ev = "cmd")
\* the callbacks invoked are f1..fk, in that order
InOrder(L, k) == Len(CmdsOf(L)) = k /\ \A i \in 1..k : CmdsOf(L)[i].cmd = i
\* callback k returned an error that is not ErrCancel
Stops(L, k) == k \in 1..Len(CmdsOf(L)) /\ CmdsOf(L)[k].res \in {"fail", "abort"}

\* C36: in a TxF step with callbacks f1..fn, an ErrCancel returned by fi
\* does not stop the sequence: the callbacks after fi are invoked in order
\* in the same transaction, up to fn or to the first callback that returns
\* another error; the version update is skipped and the transaction is
\* rolled back; the step returns nil when no callback returns another
\* error, and else the error of that callback, which is the last one
\* invoked.
C36_CancelContinuesCallbacks ==
    \A t \in Threads :
        (last[t].valid /\ last[t].f.kind = "TxF" /\ HasRes(last[t], "cancel")) =>
            /\ OnceFinalized(last[t].events)
            /\ ~HasEv(last[t], "set") /\ LastEv(last[t]) = "rollback"
            /\ last[t].post = last[t].pre
            /\ IF \E k \in 1..NumCmds : Stops(last[t], k)
               THEN \E k \in 1..NumCmds :
                       /\ Stops(last[t], k) /\ InOrder(last[t], k)
                       /\ \A j \in 1..(k - 1) : ~Stops(last[t], j)
                       /\ last[t].err # Nil
                       /\ Is(last[t].err, IF CmdsOf(last[t])[k].res = "abort" THEN ErrAbort ELSE "other")
               ELSE InOrder(last[t], NumCmds) /\ last[t].err = Nil
C36_Witness ==
    \E t \in Threads :
        /\ last[t].valid /\ last[t].f.kind = "TxF" /\ ~last[t].dryRun
        /\ InOrder(last[t], NumCmds)
        /\ CmdsOf(last[t])[1].res = "cancel" /\ CmdsOf(last[t])[NumCmds].res = "ok"
        /\ last[t].err = Nil /\ LastEv(last[t]) = "rollback"
\* command or callback k of the run recorded in L returned an error
ErrorAt(L, k) == k \in 1..Len(CmdsOf(L)) /\ CmdsOf(L)[k].res # "ok"
\* the effects of the commands 1..n of step function f
RECURSIVE Done(_, _)
Done(f, n) == IF n = 0 THEN << >> ELSE Append(Done(f, n - 1), Effect(f, n))

\* C37: when command k of a NoTx step, or callback k of a NoTxF step,
\* fails, no later command or callback is executed, the version update is
\* not run, the version row stays at info.From() and the cache is
\* unchanged, the step and the call return an error, and the effects of
\* the commands 1..k-1 stay in the database.
C37_NoTxPartialFailure ==
    \A t \in Threads : \A k \in 1..NumCmds :
        (last[t].valid /\ IsNoTx(last[t].f) /\ ErrorAt(last[t], k)) =>
            /\ InOrder(last[t], k)
            /\ \A j \in 1..(k - 1) : ~ErrorAt(last[t], j)
            /\ LastEv(last[t]) = "cmd" /\ ~HasEv(last[t], "set")
            /\ db.table = last[t].pre.table /\ db.rows = last[t].pre.rows
            /\ RowIs(db, last[t].info.from)
            /\ cachedVersion[owner[t]] = last[t].info.from
            /\ db.data = last[t].pre.data \o Done(last[t].f, k - 1)
            /\ last[t].err # Nil
            /\ pc[t] = "ret" /\ ret[t] = last[t].err
C37_Witness ==
    \E t \in Threads :
        /\ last[t].valid /\ last[t].f.kind = "NoTx" /\ ErrorAt(last[t], NumCmds)
        /\ AtRet(t, "OneUp") /\ ret[t] # Nil
        /\ db.data = last[t].pre.data \o Done(last[t].f, NumCmds - 1)
        /\ db.data # last[t].pre.data
        /\ RowIs(db, last[t].info.from)
\* the id at which the latest call, an Up or a Down, finds no step left
Boundary == IF reg.op = "Up" THEN N - 1 ELSE 0

\* C38: Up and Down check the version before they test the boundary.  For
\* a version that Check rejects they fail with ErrBadVersion, not with
\* ErrEndOfSteps, and return no info and no operation, also when its id is
\* N-1 for Up or 0 for Down; they fail with ErrEndOfSteps exactly for a
\* version of the registry at the boundary.
C38_CheckBeforeBoundary ==
    reg.op \in {"Up", "Down"} =>
        /\ StepsCheck(steps, reg.v) # Nil <=> ~Valid(reg.v)
        /\ ~Valid(reg.v) =>
              /\ Is(reg.err, ErrBadVersion) /\ ~Is(reg.err, ErrEndOfSteps)
              /\ reg.info = NoInfo /\ reg.f = NilFunc
        /\ Is(reg.err, ErrEndOfSteps) <=> (Valid(reg.v) /\ reg.v.ID = Boundary)
        /\ Is(reg.err, ErrEndOfSteps) => (reg.info = NoInfo /\ reg.f = NilFunc /\ ~Is(reg.err, ErrBadVersion))
C38_Witness ==
    /\ N = NumSteps + 1
    /\ reg.op = "Up" /\ reg.v.ID = N - 1
    /\ reg.v.Checksum = steps[1].version.Checksum
    /\ Is(reg.err, ErrBadVersion) /\ reg.f = NilFunc
\* entry i of the registry has id i, for every i in [0, Len)
DenseIDs == \A i \in 0..(StepsLen(steps) - 1) : steps[i + 1].version.ID = i
\* this step is an Append that returns no error
Appended == reg'.op = "Append" /\ reg'.err = Nil /\ steps' # steps

\* C39: the registry is append-only with dense ids.  It starts with one
\* entry; an Append that returns no error makes Len one more, leaves the
\* name, version and operations of every existing entry as they were and
\* adds an entry with the id equal to the previous Len, the name and the
\* operations it was given; nothing else changes the registry; so Len is
\* 1 plus the number of successful Appends and entry i has id i.
C39_AppendOnly ==
    /\ StepsLen(steps) = 1
    /\ []DenseIDs
    /\ [][IF Appended
          THEN /\ StepsLen(steps') = StepsLen(steps) + 1
               /\ SubSeq(steps', 1, Len(steps)) = steps
               /\ steps'[Len(steps')].version.ID = StepsLen(steps)
               /\ steps'[Len(steps')].name = reg'.name
               /\ steps'[Len(steps')].up = reg'.up /\ steps'[Len(steps')].down = reg'.down
          ELSE steps' = steps]_vars
C39_Witness ==
    /\ StepsLen(steps) = NumSteps + 1 /\ DenseIDs
    /\ reg.op = "Append" /\ reg.err = Nil
    /\ steps[N].name = reg.name /\ steps[N].version.ID = NumSteps
    /\ steps[N - 1].up # NilFunc /\ steps[N].up = NilFunc

\* every entry of the registry r is a whole entry: it has a name, the id of
\* its index and the checksum chained from the entry before it
Complete(r) ==
    /\ Len(r) >= 1
    /\ \A i \in 1..Len(r) : r[i].name # "" /\ r[i].version.ID = i - 1
    /\ \A i \in 1..(Len(r) - 1) : r[i + 1].version.Checksum = Sum256(ChainInput(r, i))
\* the goroutine c is inside a reading method, holding the read lock
Reading(c) == caller[c].pc \in {"read", "runlock"}
\* the goroutine c is inside Append, holding the write lock
Appending(c) == caller[c].pc \in {"append", "fill", "wunlock"}
\* a call is in progress
Busy == \E c \in Callers : caller[c].pc # "idle"

\* C40: registry reads are atomic with respect to Append.  While a
\* goroutine is inside Len, Version, Name, Check, Up or Down no goroutine
\* is inside Append, the registry is the one the method found on entry and
\* all its entries are whole; what the method returns is what it computes
\* on that registry, so on the registry before or after an Append and
\* never on one with a half-written entry.  A goroutine waiting for the
\* read lock can take it whenever no goroutine holds or waits for the write
\* lock, whatever the number of readers inside; and whenever a call is in
\* progress some call can take its next step.
C40_ReadsAtomic ==
    /\ \A c \in Readers :
          /\ Reading(c) =>
                /\ c \in rwmu.readers /\ rwmu.writer = "none"
                /\ \A w \in Callers : ~Appending(w)
                /\ steps = caller[c].seen
          /\ caller[c].pc \in {"read", "runlock", "done"} => Complete(caller[c].seen)
          /\ caller[c].pc \in {"runlock", "done"} =>
                caller[c].res = Read(caller[c].seen, caller[c].op)
          /\ (caller[c].pc = "rlock" /\ rwmu.writer = "none" /\ ~WriterWaiting) => ENABLED RLock(c)
    /\ \A w \in Writers : Appending(w) => rwmu.writer = w /\ rwmu.readers = {}
    /\ Busy => ENABLED Progress
\* both readers are inside a method while an Append waits for the lock, and
\* one of them has read the step that an earlier Append added
C40_Witness ==
    /\ caller["r1"].pc = "read" /\ caller["r2"].pc = "runlock"
    /\ rwmu.readers = Readers
    /\ caller["w"].pc = "wlock" /\ caller["w"].op.name # ""
    /\ Len(steps) = 2
    /\ caller["r2"].op.op = "Up" /\ caller["r2"].res.err = Nil
    /\ caller["r2"].res.info.to = steps[2].version
    /\ caller["r2"].res.f # NilFunc
====
